---- MODULE Spec2Model ----
(***************************************************************************)
(* EduZen agent: the Record Store (utils/xlsx.py), the tool handlers       *)
(* (agents/tools.py) and the direct-variant conversation loop              *)
(* (agents/vanilla_agent.py, agent.py).                                    *)
(*                                                                         *)
(* Specifications:                                                         *)
(*   SpecStore  one caller using the Record Store and the tool handlers    *)
(*              sequentially.                                              *)
(*   SpecConc   two callers appending concurrently, each append split at   *)
(*              its file-system accesses.                                  *)
(*   Spec       turns of the direct-variant chat.                          *)
(***************************************************************************)
EXTENDS Integers, Sequences, FiniteSets, TLC

\* ------------------------------------------------------------------ bounds
\* rows the tables may hold in total (SpecStore)
MaxRows == 2
\* rows the tables may hold in total when a tool handler is called directly
MaxLeads == 1
\* save_* calls the concurrent callers start in total (SpecConc)
MaxAppends == 2
\* turns of one conversation (Spec)
MaxTurns == 2
\* tool calls one model response may request (Spec)
MaxToolCalls == 2
\* rows the tables may hold in total (Spec)
MaxChatRows == 2
\* the clock readings datetime.now() may return are 0..MaxClock
MaxClock == 1

\* the staged variant: chat calls of a session, tool rounds of a turn,
\* messages the checkpointer holds over all threads
MaxReActTurns == 2

MaxRounds == 1

MaxMessages == 8

\* the interface: calls of initialize_agent, calls of chat_interface
MaxInits == 2

MaxUiMessages == 2

\* ------------------------------------------------------------ cell values
\* Every cell value is a Python str; a missing value (pandas NaN) is kept
\* apart from every str by its own token.
NaN == "<NaN>"

\* str values pandas.read_excel parses as missing (a sample of its default
\* na_values: the empty cell and the literal N/A).
NAStrings == {"", "N/A"}

\* datetime.now().strftime("%Y-%m-%d %H:%M:%S") at clock reading t
TimeStrings ==
  << "2025-01-01 10:00:00", "2025-01-01 10:00:01", "2025-01-01 10:00:02",
     "2025-01-01 10:00:03", "2025-01-01 10:00:04", "2025-01-01 10:00:05" >>

FormatTime(t) == TimeStrings[t + 1]

Range(s) == {s[i] : i \in DOMAIN s}

\* ----------------------------------------------------------- Python dicts
\* A dict keeps its keys in insertion order: keys is that order, val the
\* mapping.
Dict(ks, v) == [keys |-> ks, val |-> v]

\* d[k] = v
DictSet(d, k, v) ==
  IF k \in Range(d.keys)
  THEN [keys |-> d.keys, val |-> [d.val EXCEPT ![k] = v]]
  ELSE [keys |-> Append(d.keys, k),
        val  |-> [x \in (DOMAIN d.val) \cup {k} |->
                    IF x = k THEN v ELSE d.val[x]]]

\* ------------------------------------------------------------- DataFrames
\* pd.DataFrame([data]): one row, the dict's keys as columns
DataFrame(data) == [cols |-> data.keys, rows |-> <<data.val>>]

\* a row over the columns cs; a column the row lacks is missing (NaN)
Reindex(row, cs) ==
  [c \in Range(cs) |-> IF c \in DOMAIN row THEN row[c] ELSE NaN]

\* pd.concat([a, b], ignore_index=True): the union of the columns, a's
\* first, and a's rows followed by b's
Concat(a, b) ==
  LET cs == a.cols \o SelectSeq(b.cols, LAMBDA c : c \notin Range(a.cols))
  IN [cols |-> cs,
      rows |-> [i \in 1..(Len(a.rows) + Len(b.rows)) |->
                  IF i <= Len(a.rows)
                  THEN Reindex(a.rows[i], cs)
                  ELSE Reindex(b.rows[i - Len(a.rows)], cs)]]

\* ------------------------------------------------------------- the files
\* A file is absent or holds a sheet: a header row and the cell texts.
\* An empty cell holds "".
Absent == [exists |-> FALSE]

Sheet(cs, rs) == [exists |-> TRUE, cols |-> cs, rows |-> rs]

\* df.to_excel(filename, index=False): NaN and "" are both written as an
\* empty cell
ToExcel(df) ==
  Sheet(df.cols,
        [i \in 1..Len(df.rows) |->
           [c \in DOMAIN df.rows[i] |->
              IF df.rows[i][c] = NaN THEN "" ELSE df.rows[i][c]]])

\* pd.read_excel(filename): an empty cell and the NA literals are read as NaN
ReadExcel(file) ==
  [cols |-> file.cols,
   rows |-> [i \in 1..Len(file.rows) |->
               [c \in DOMAIN file.rows[i] |->
                  IF file.rows[i][c] \in NAStrings THEN NaN
                  ELSE file.rows[i][c]]]]

STUDENTS_FILE == "students_leads.xlsx"
WORKSHOPS_FILE == "workshops_leads.xlsx"
FEEDBACK_FILE == "feedback.xlsx"
Filenames == {STUDENTS_FILE, WORKSHOPS_FILE, FEEDBACK_FILE}

\* What the file system does to one call: nothing, or the read or the
\* write raises (an unreadable or locked file).
IoOutcomes == {"ok", "read_error", "write_error"}

\* ------------------------------------------------------- the Record Store
\* The body of the try block of save_student_lead (save_workshop_lead and
\* save_feedback repeat it): stamp the caller's dict, read the sheet if the
\* file exists, add the row, rewrite the whole sheet.  exc says whether an
\* exception left the block; data is the caller's dict afterwards.
SaveTryKeepsCallerStamp(file, data, t, io) ==
  LET d == IF "timestamp" \in Range(data.keys) THEN data
           ELSE DictSet(data, "timestamp", FormatTime(t))
      new_df == DataFrame(d)
  IN IF file.exists /\ io = "read_error"
     THEN [exc |-> TRUE, file |-> file, data |-> d]
     ELSE IF io = "write_error"
     THEN [exc |-> TRUE, file |-> file, data |-> d]
     ELSE [exc |-> FALSE, data |-> d,
           file |-> ToExcel(IF file.exists
                            THEN Concat(ReadExcel(file), new_df)
                            ELSE new_df)]

SaveTry(file, data, t, io) ==
  LET d == DictSet(data, "timestamp", FormatTime(t))
      new_df == DataFrame(d)
  IN IF file.exists /\ io = "read_error"
     THEN [exc |-> TRUE, file |-> file, data |-> d]
     ELSE IF io = "write_error"
     THEN [exc |-> TRUE, file |-> file, data |-> d]
     ELSE [exc |-> FALSE, data |-> d,
           file |-> ToExcel(IF file.exists
                            THEN Concat(ReadExcel(file), new_df)
                            ELSE new_df)]

\* try: ... return True / except Exception: print(...); return False.
\* raised says whether an exception reaches the caller.
SaveLeadNoExcept(fs, filename, data, t, io) ==
  LET r == SaveTry(fs[filename], data, t, io)
  IN [ret |-> ~r.exc, raised |-> r.exc,
      fs |-> [fs EXCEPT ![filename] = r.file], data |-> r.data]

SaveLead(fs, filename, data, t, io) ==
  LET r == SaveTry(fs[filename], data, t, io)
  IN [ret |-> ~r.exc, raised |-> FALSE,
      fs |-> [fs EXCEPT ![filename] = r.file], data |-> r.data]

save_student_lead(fs, data, t, io) == SaveLead(fs, STUDENTS_FILE, data, t, io)

save_workshop_lead(fs, data, t, io) == SaveLead(fs, WORKSHOPS_FILE, data, t, io)

save_feedback(fs, data, t, io) == SaveLead(fs, FEEDBACK_FILE, data, t, io)

\* The value a get_* call returns: None, or the DataFrame read.
None == [type |-> "None"]

Frame(df) == [type |-> "DataFrame", cols |-> df.cols, rows |-> df.rows]

\* get_student_leads (get_workshop_leads and get_feedback_data repeat it):
\* the DataFrame if the file exists, None if it does not or the read raises.
GetLeadsEmptyFrame(fs, filename, io) ==
  IF fs[filename].exists
  THEN IF io = "read_error"
       THEN [ret |-> None, raised |-> FALSE]
       ELSE [ret |-> Frame(ReadExcel(fs[filename])), raised |-> FALSE]
  ELSE [ret |-> Frame([cols |-> <<>>, rows |-> <<>>]), raised |-> FALSE]

GetLeads(fs, filename, io) ==
  IF fs[filename].exists
  THEN IF io = "read_error"
       THEN [ret |-> None, raised |-> FALSE]
       ELSE [ret |-> Frame(ReadExcel(fs[filename])), raised |-> FALSE]
  ELSE [ret |-> None, raised |-> FALSE]

get_student_leads(fs, io) == GetLeads(fs, STUDENTS_FILE, io)

get_workshop_leads(fs, io) == GetLeads(fs, WORKSHOPS_FILE, io)

get_feedback_data(fs, io) == GetLeads(fs, FEEDBACK_FILE, io)

\* ---------------------------------------------------------- Python strs
\* The characters of the strs whose characters the program inspects.
Chars(s) ==
  CASE s = "Grade 10" -> <<"G", "r", "a", "d", "e", " ", "1", "0">>
    [] s = "University" -> <<"U", "n", "i", "v", "e", "r", "s", "i", "t", "y">>
    [] s = "PhD" -> <<"P", "h", "D">>
    [] s = "Bachelor 2" -> <<"B", "a", "c", "h", "e", "l", "o", "r", " ", "2">>
    [] s = "MASTERS" -> <<"M", "A", "S", "T", "E", "R", "S">>
    [] s = "Undergraduate" -> <<"U", "n", "d", "e", "r", "g", "r", "a", "d", "u", "a", "t", "e">>
    [] s = "postgraduate" -> <<"p", "o", "s", "t", "g", "r", "a", "d", "u", "a", "t", "e">>
    [] s = "College" -> <<"C", "o", "l", "l", "e", "g", "e">>
    [] s = "" -> <<>>
    [] s = "university" -> <<"u", "n", "i", "v", "e", "r", "s", "i", "t", "y">>
    [] s = "bachelor" -> <<"b", "a", "c", "h", "e", "l", "o", "r">>
    [] s = "master" -> <<"m", "a", "s", "t", "e", "r">>
    [] s = "phd" -> <<"p", "h", "d">>
    [] s = "undergraduate" -> <<"u", "n", "d", "e", "r", "g", "r", "a", "d", "u", "a", "t", "e">>
    [] s = "graduate" -> <<"g", "r", "a", "d", "u", "a", "t", "e">>

\* str.lower() on one character
LowerChar(c) ==
  CASE c = "A" -> "a"
    [] c = "B" -> "b"
    [] c = "C" -> "c"
    [] c = "D" -> "d"
    [] c = "E" -> "e"
    [] c = "G" -> "g"
    [] c = "M" -> "m"
    [] c = "P" -> "p"
    [] c = "R" -> "r"
    [] c = "S" -> "s"
    [] c = "T" -> "t"
    [] c = "U" -> "u"
    [] OTHER -> c

\* s.lower(), on the characters
Lower(cs) == [i \in 1..Len(cs) |-> LowerChar(cs[i])]

\* needle in hay, on the characters: scan the start positions left to right
RECURSIVE FindFrom(_, _, _)
FindFrom(needle, hay, i) ==
  IF i + Len(needle) - 1 > Len(hay) THEN FALSE
  ELSE IF SubSeq(hay, i, i + Len(needle) - 1) = needle THEN TRUE
  ELSE FindFrom(needle, hay, i + 1)

StrIn(needle, hay) == FindFrom(needle, hay, 1)

\* ------------------------------------------------------ the tool handlers
UNIVERSITY_GROUP == "taleb w istez"
K12_GROUP == "telmiz w istez"
WORKSHOP_GROUP == "motadareb w khabeer"

\* The status texts the handlers return (tools.py lines 50-55, 108-113,
\* 145-150), shortened; the f-strings with their argument filled in.
StudentSuccess(whatsapp_group) ==
  IF whatsapp_group = UNIVERSITY_GROUP
  THEN "Student lead recorded successfully! ... through our 'taleb w istez' WhatsApp group."
  ELSE "Student lead recorded successfully! ... through our 'telmiz w istez' WhatsApp group."

STUDENT_FAILURE == "Sorry, there was an error recording your information."
WORKSHOP_SUCCESS == "Workshop/program lead recorded successfully! ... our 'motadareb w khabeer' WhatsApp group."
WORKSHOP_FAILURE == "Sorry, there was an error recording your program information."
FEEDBACK_SUCCESS == "Thank you for your feedback! Your question has been recorded."
FEEDBACK_FAILURE == "Sorry, there was an error recording your feedback."
HANDLER_ERROR == "Error: <exception text>. Please check your information and try again."
FEEDBACK_ERROR == "Error recording feedback: <exception text>"

\* the grade test of record_students_lead
IsUniversityGradeNoLower(grade) ==
  \/ StrIn(Chars("university"), Chars(grade))
  \/ \E term \in {"bachelor", "master", "phd", "undergraduate", "graduate"} :
       StrIn(Chars(term), Chars(grade))

IsUniversityGrade(grade) ==
  \/ StrIn(Chars("university"), Lower(Chars(grade)))
  \/ \E term \in {"bachelor", "master", "phd", "undergraduate", "graduate"} :
       StrIn(Chars(term), Lower(Chars(grade)))

StudentFields ==
  <<"name", "email", "language", "subjects", "grade", "location", "contact_info">>

WorkshopFields ==
  <<"organization_name", "contact_person", "email", "phone", "program_type",
    "program_name", "description", "target_audience", "duration", "location",
    "expected_participants">>

FeedbackFields == <<"user_question", "category", "urgency", "contact_info">>

\* the dict a handler builds from its parameters
DataOf(fields, a) == Dict(fields, [k \in Range(fields) |-> a[k]])

\* A handler's result: the status text, the files afterwards, the dict it
\* handed to the Record Store (as the store left it) and what the store
\* answered; raised says whether an exception leaves the handler.
HandlerResult(content, s) ==
  [content |-> content, raised |-> FALSE, fs |-> s.fs, data |-> s.data,
   saved |-> s.ret]

\* record_students_lead without the test of what the store answered
record_students_leadIgnoresStore(fs, a, t, io) ==
  LET s == save_student_lead(fs, DataOf(StudentFields, a), t, io)
  IN HandlerResult(StudentSuccess(IF IsUniversityGrade(a.grade)
                                  THEN UNIVERSITY_GROUP
                                  ELSE K12_GROUP), s)

record_students_lead(fs, a, t, io) ==
  LET s == save_student_lead(fs, DataOf(StudentFields, a), t, io)
  IN IF s.raised THEN HandlerResult(HANDLER_ERROR, s)
     ELSE IF s.ret
     THEN HandlerResult(StudentSuccess(IF IsUniversityGrade(a.grade)
                                       THEN UNIVERSITY_GROUP
                                       ELSE K12_GROUP), s)
     ELSE HandlerResult(STUDENT_FAILURE, s)

record_workshops_lead(fs, a, t, io) ==
  LET s == save_workshop_lead(fs, DataOf(WorkshopFields, a), t, io)
  IN IF s.raised THEN HandlerResult(HANDLER_ERROR, s)
     ELSE IF s.ret THEN HandlerResult(WORKSHOP_SUCCESS, s)
     ELSE HandlerResult(WORKSHOP_FAILURE, s)

record_feedback(fs, a, t, io) ==
  LET s == save_feedback(fs, DataOf(FeedbackFields, a), t, io)
  IN IF s.raised THEN HandlerResult(FEEDBACK_ERROR, s)
     ELSE IF s.ret THEN HandlerResult(FEEDBACK_SUCCESS, s)
     ELSE HandlerResult(FEEDBACK_FAILURE, s)

\* ------------------------------------------------------------- the state
VARIABLES
  files,    \* filename -> Absent or the sheet on disk
  now,      \* the latest clock reading handed out
  written,  \* filename -> the appends that returned True, in order: the
            \* dict supplied and the clock reading (history variable)
  ret,      \* SpecStore: the caller's last call and what came back
  procs,    \* SpecConc: caller -> where it is in its save_* call, its locals
  version,  \* SpecConc: filename -> the number of writes so far (history
            \* variable)
  raced,    \* SpecConc: filename -> some write replaced a sheet that had
            \* changed since the writer looked at it (history variable)
  history,  \* Spec: the list of turns the caller holds and passes to chat
  turn,     \* Spec: the chat call in progress or just returned: its
            \* arguments, its locals, what it returned
  events,   \* Spec: the model calls and handler runs of that call, in order
            \* (history variable)
  agent,    \* SpecAgents: the agent the session created: "none", "vanilla"
            \* (create_agent of vanilla_agent.py) or "react" (react_lg_agent.py)
  checkpointer, \* SpecReAct: the MemorySaver of the graph: thread_id -> the
            \* messages channel at the last checkpoint
  run,      \* SpecReAct: the call of the staged agent in progress or just
            \* returned: its arguments, the node the graph is at, its result
  steps,    \* SpecReAct: the nodes that call ran, in order, with what each
            \* sent and got (history variable)
  cleared,  \* SpecReAct: thread_id -> clear_history was called on it since
            \* its last chat (history variable)
  current_agent, \* SpecInterface: the global of interface.py: None or the
            \* agent object created last
  current_agent_type, \* SpecInterface: the global: None, "vanilla" or "react"
  current_personality, \* SpecInterface: the global: None or a personality
  threads,  \* SpecInterface: the thread running initialize_agent and the
            \* thread running chat_interface: the statement each is at, its
            \* locals, the calls it has made
  dispatched \* SpecInterface: the calls chat_interface made on an agent
            \* object, in order (history variable)

storeVars == <<files, now, written, ret>>

concVars == <<procs, version, raced>>

chatVars == <<history, turn, events>>

reactVars == <<agent, checkpointer, run, steps, cleared>>

ifaceVars == <<current_agent, current_agent_type, current_personality, threads,
              dispatched>>

ThreadIds == {"default", "t2"}

\* current_agent = None (interface.py:9)
NoAgent == [kind |-> "None", id |-> 0]

vars == <<files, now, written, ret, procs, version, raced, history, turn, events,
         agent, checkpointer, run, steps, cleared, current_agent,
         current_agent_type, current_personality, threads, dispatched>>

NoCall == [op |-> "none"]

Callers == {"c1", "c2"}

Idle == [pc |-> "idle"]

Init ==
  /\ files = [f \in Filenames |-> Absent]
  /\ now = 0
  /\ written = [f \in Filenames |-> <<>>]
  /\ ret = NoCall
  /\ procs = [p \in Callers |-> Idle]
  /\ version = [f \in Filenames |-> 0]
  /\ raced = [f \in Filenames |-> FALSE]
  /\ history = <<>>
  /\ turn = Idle
  /\ events = <<>>
  /\ agent = "none"
  /\ checkpointer = [thread_id \in ThreadIds |-> <<>>]
  /\ run = Idle
  /\ steps = <<>>
  /\ cleared = [thread_id \in ThreadIds |-> FALSE]
  /\ current_agent = NoAgent
  /\ current_agent_type = "None"
  /\ current_personality = "None"
  /\ threads = [init |-> [pc |-> "idle", agent_type |-> "None",
                          personality |-> "None", calls |-> 0, created |-> 0,
                          raised |-> FALSE],
                chat |-> [pc |-> "idle", type |-> "None", calls |-> 0,
                          replies |-> <<>>]]
  /\ dispatched = <<>>

RowCount(file) == IF file.exists THEN Len(file.rows) ELSE 0

TotalRows ==
  RowCount(files[STUDENTS_FILE]) + RowCount(files[WORKSHOPS_FILE])
    + RowCount(files[FEEDBACK_FILE])

\* ------------------------------------------------- inputs of the callers
Grades ==
  {"Grade 10", "University", "PhD", "Bachelor 2", "MASTERS", "Undergraduate",
   "postgraduate", "College", ""}

StudentArgs(g, c) ==
  [name |-> "Sami", email |-> "sami@mail.org", language |-> "Arabic",
   subjects |-> "math, physics", grade |-> g, location |-> "Beirut",
   contact_info |-> c]

WorkshopArgs(p) ==
  [organization_name |-> "CodeLab", contact_person |-> "Rana",
   email |-> "rana@codelab.org", phone |-> p, program_type |-> "bootcamp",
   program_name |-> "Python 101", description |-> "intro to programming",
   target_audience |-> "beginners", duration |-> "two weeks",
   location |-> "Tripoli", expected_participants |-> "about twenty"]

FeedbackArgs(q, c, u, i) ==
  [user_question |-> q, category |-> c, urgency |-> u, contact_info |-> i]

\* dicts handed to save_student_lead, save_workshop_lead, save_feedback
StudentData ==
  {DataOf(StudentFields, StudentArgs("Grade 10", "")),
   DataOf(StudentFields, StudentArgs("University", "whatsapp 70123"))}

WorkshopData == {DataOf(WorkshopFields, WorkshopArgs("N/A"))}

\* the second dict already carries a timestamp key, set by the caller
FeedbackData ==
  {DataOf(FeedbackFields, FeedbackArgs("refund?", "billing", "high", "x@y.z")),
   Dict(<<"timestamp", "user_question", "category", "urgency", "contact_info">>,
        [timestamp |-> "yesterday", user_question |-> "hours?",
         category |-> "general", urgency |-> "medium", contact_info |-> ""])}

\* ------------------------------------------- SpecStore: one caller's calls
\* the caller's record of a save_* call
SaveCall(op, f, data, t, io, r) ==
  /\ files' = r.fs
  /\ now' = t
  /\ written' = IF r.ret /\ ~r.raised
                THEN [written EXCEPT ![f] = Append(@, [data |-> data, t |-> t])]
                ELSE written
  /\ ret' = [op |-> op, file |-> f, arg |-> data, io |-> io, out |-> r.ret,
             raised |-> r.raised, data |-> r.data, before |-> files[f]]
  /\ UNCHANGED <<concVars, chatVars, reactVars, ifaceVars>>

SaveStudentLead ==
  \E data \in StudentData, t \in now..MaxClock, io \in IoOutcomes :
    /\ TotalRows < MaxRows
    /\ SaveCall("save", STUDENTS_FILE, data, t, io,
                save_student_lead(files, data, t, io))

SaveWorkshopLead ==
  \E data \in WorkshopData, t \in now..MaxClock, io \in IoOutcomes :
    /\ TotalRows < MaxRows
    /\ SaveCall("save", WORKSHOPS_FILE, data, t, io,
                save_workshop_lead(files, data, t, io))

SaveFeedback ==
  \E data \in FeedbackData, t \in now..MaxClock, io \in IoOutcomes :
    /\ TotalRows < MaxRows
    /\ SaveCall("save", FEEDBACK_FILE, data, t, io,
                save_feedback(files, data, t, io))

\* the caller's record of a get_* call
GetCall(f, io, r) ==
  /\ ret' = [op |-> "get", file |-> f, io |-> io, out |-> r.ret,
             raised |-> r.raised]
  /\ UNCHANGED <<files, now, written>>
  /\ UNCHANGED <<concVars, chatVars, reactVars, ifaceVars>>

GetStudentLeads ==
  \E io \in IoOutcomes \ {"write_error"} :
    GetCall(STUDENTS_FILE, io, get_student_leads(files, io))

GetWorkshopLeads ==
  \E io \in IoOutcomes \ {"write_error"} :
    GetCall(WORKSHOPS_FILE, io, get_workshop_leads(files, io))

GetFeedbackData ==
  \E io \in IoOutcomes \ {"write_error"} :
    GetCall(FEEDBACK_FILE, io, get_feedback_data(files, io))

\* the caller's record of a handler call
HandlerCall(f, fields, a, t, io, r) ==
  /\ files' = r.fs
  /\ now' = t
  /\ written' = IF r.saved
                THEN [written EXCEPT
                        ![f] = Append(@, [data |-> DataOf(fields, a), t |-> t])]
                ELSE written
  /\ ret' = [op |-> "record", file |-> f, arg |-> a, io |-> io,
             out |-> r.content, raised |-> r.raised, saved |-> r.saved,
             before |-> files[f]]
  /\ UNCHANGED <<concVars, chatVars, reactVars, ifaceVars>>

RecordStudentsLead ==
  \E g \in Grades, t \in now..MaxClock, io \in IoOutcomes :
    /\ TotalRows < MaxLeads
    /\ HandlerCall(STUDENTS_FILE, StudentFields, StudentArgs(g, ""), t, io,
                   record_students_lead(files, StudentArgs(g, ""), t, io))

RecordWorkshopsLead ==
  \E t \in now..MaxClock, io \in IoOutcomes :
    /\ TotalRows < MaxLeads
    /\ HandlerCall(WORKSHOPS_FILE, WorkshopFields, WorkshopArgs("03 123456"), t, io,
                   record_workshops_lead(files, WorkshopArgs("03 123456"), t, io))

RecordFeedback ==
  \E t \in now..MaxClock, io \in IoOutcomes :
    /\ TotalRows < MaxLeads
    /\ HandlerCall(FEEDBACK_FILE, FeedbackFields,
                   FeedbackArgs("hours?", "general", "medium", ""), t, io,
                   record_feedback(files, FeedbackArgs("hours?", "general", "medium", ""), t, io))

NextStore ==
  \/ SaveStudentLead
  \/ SaveWorkshopLead
  \/ SaveFeedback
  \/ GetStudentLeads
  \/ GetWorkshopLeads
  \/ GetFeedbackData
  \/ RecordStudentsLead
  \/ RecordWorkshopsLead
  \/ RecordFeedback

SpecStore == Init /\ [][NextStore]_vars

\* ------------------------------ SpecConc: two callers appending at once
\* A save_* call touches the file three times: os.path.exists, read_excel,
\* to_excel.  Each is one step; what lies between them is local to the call.

\* the call starts: data['timestamp'] = now, new_df = pd.DataFrame([data])
CallSave(p) ==
  \E f \in Filenames, t \in now..MaxClock :
    \E data \in (CASE f = STUDENTS_FILE -> StudentData
                   [] f = WORKSHOPS_FILE -> WorkshopData
                   [] f = FEEDBACK_FILE -> FeedbackData) :
      /\ procs[p].pc \in {"idle", "done"}
      /\ Cardinality({q \in Callers : procs[q].pc \notin {"idle", "done"}})
           + Len(written[STUDENTS_FILE]) + Len(written[WORKSHOPS_FILE])
           + Len(written[FEEDBACK_FILE]) < MaxAppends
      /\ now' = t
      /\ procs' = [procs EXCEPT ![p] =
                     [pc |-> "exists", file |-> f, arg |-> data, t |-> t,
                      new_df |-> DataFrame(DictSet(data, "timestamp", FormatTime(t)))]]
      /\ UNCHANGED <<files, written, ret, version, raced, chatVars, reactVars, ifaceVars>>

\* if os.path.exists(filename): ... else: updated_df = new_df
CheckExists(p) ==
  /\ procs[p].pc = "exists"
  /\ procs' = [procs EXCEPT ![p] =
       IF files[procs[p].file].exists
       THEN [pc |-> "read", file |-> @.file, arg |-> @.arg, t |-> @.t,
             new_df |-> @.new_df]
       ELSE [pc |-> "write", file |-> @.file, arg |-> @.arg, t |-> @.t,
             updated_df |-> @.new_df, seen |-> version[@.file]]]
  /\ UNCHANGED <<files, now, written, ret, version, raced, chatVars, reactVars, ifaceVars>>

\* existing_df = pd.read_excel(filename); updated_df = pd.concat(...);
\* a read that raises ends the call with False
ReadExisting(p) ==
  \E io \in {"ok", "read_error"} :
    /\ procs[p].pc = "read"
    /\ procs' = [procs EXCEPT ![p] =
         IF io = "read_error"
         THEN [pc |-> "done", file |-> @.file, arg |-> @.arg, out |-> FALSE]
         ELSE [pc |-> "write", file |-> @.file, arg |-> @.arg, t |-> @.t,
               updated_df |-> Concat(ReadExcel(files[@.file]), @.new_df),
               seen |-> version[@.file]]]
    /\ UNCHANGED <<files, now, written, ret, version, raced, chatVars, reactVars, ifaceVars>>

\* what updated_df.to_excel(filename, index=False) leaves in the file that
\* holds current: the whole sheet is replaced
WriteSheetAppendInPlace(current, updated_df) ==
  IF current.exists
  THEN ToExcel(Concat(ReadExcel(current),
                      [cols |-> updated_df.cols,
                       rows |-> <<updated_df.rows[Len(updated_df.rows)]>>]))
  ELSE ToExcel(updated_df)

WriteSheet(current, updated_df) == ToExcel(updated_df)

\* updated_df.to_excel(filename, index=False); return True;
\* a write that raises ends the call with False
WriteBack(p) ==
  \E io \in {"ok", "write_error"} :
    LET f == procs[p].file IN
    /\ procs[p].pc = "write"
    /\ IF io = "write_error"
       THEN /\ procs' = [procs EXCEPT ![p] =
                 [pc |-> "done", file |-> f, arg |-> @.arg, out |-> FALSE]]
            /\ UNCHANGED <<files, written, version, raced>>
       ELSE /\ files' = [files EXCEPT ![f] = WriteSheet(@, procs[p].updated_df)]
            /\ written' = [written EXCEPT
                 ![f] = Append(@, [data |-> procs[p].arg, t |-> procs[p].t])]
            /\ version' = [version EXCEPT ![f] = @ + 1]
            /\ raced' = [raced EXCEPT ![f] = @ \/ procs[p].seen # version[f]]
            /\ procs' = [procs EXCEPT ![p] =
                 [pc |-> "done", file |-> f, arg |-> @.arg, out |-> TRUE]]
    /\ UNCHANGED <<now, ret, chatVars, reactVars, ifaceVars>>

NextConc ==
  \E p \in Callers :
    \/ CallSave(p)
    \/ CheckExists(p)
    \/ ReadExisting(p)
    \/ WriteBack(p)

SpecConc == Init /\ [][NextConc]_vars

\* ------------------------------------------ the direct-variant chat loop
\* the names TOOLS_DEFINITIONS declares to the model
TOOLS_DEFINITIONS ==
  <<"record_students_lead", "record_workshops_lead", "record_feedback">>

\* a dispatch mapping that lacks the feedback handler
AVAILABLE_FUNCTIONS_NoFeedback ==
  {"record_students_lead", "record_workshops_lead"}

\* the keys of AVAILABLE_FUNCTIONS
AVAILABLE_FUNCTIONS ==
  {"record_students_lead", "record_workshops_lead", "record_feedback"}

\* the parameters of a handler that have no default
Required(name) ==
  CASE name = "record_students_lead" ->
         {"name", "email", "language", "subjects", "grade", "location"}
    [] name = "record_workshops_lead" -> Range(WorkshopFields)
    [] name = "record_feedback" -> {"user_question"}

\* the defaults of the parameters that have one
Defaults(name) ==
  CASE name = "record_students_lead" -> [contact_info |-> ""]
    [] name = "record_workshops_lead" -> <<>>
    [] name = "record_feedback" ->
         [category |-> "general", urgency |-> "medium", contact_info |-> ""]

Params(name) == Required(name) \cup DOMAIN Defaults(name)

\* the arguments the handler runs with: the supplied ones, the default for
\* each one left out
BindNoDefaults(name, obj) ==
  [k \in Params(name) |-> IF k \in DOMAIN obj THEN obj[k] ELSE ""]

Bind(name, obj) ==
  [k \in Params(name) |-> IF k \in DOMAIN obj THEN obj[k] ELSE Defaults(name)[k]]

\* tool.invoke(function_args): a required argument left out raises before
\* the handler runs; otherwise the handler runs on the bound arguments
Invoke(name, fs, obj, t, io) ==
  IF ~(Required(name) \subseteq DOMAIN obj)
  THEN [raised |-> TRUE, error |-> "1 validation error"]
  ELSE LET a == Bind(name, obj)
           r == CASE name = "record_students_lead" -> record_students_lead(fs, a, t, io)
                  [] name = "record_workshops_lead" -> record_workshops_lead(fs, a, t, io)
                  [] name = "record_feedback" -> record_feedback(fs, a, t, io)
       IN [raised |-> r.raised, content |-> r.content, fs |-> r.fs,
           saved |-> r.saved, args |-> a, error |-> HANDLER_ERROR]

\* the table a handler writes
FileOf(name) ==
  CASE name = "record_students_lead" -> STUDENTS_FILE
    [] name = "record_workshops_lead" -> WORKSHOPS_FILE
    [] name = "record_feedback" -> FEEDBACK_FILE

FieldsOf(name) ==
  CASE name = "record_students_lead" -> StudentFields
    [] name = "record_workshops_lead" -> WorkshopFields
    [] name = "record_feedback" -> FeedbackFields

\* json.loads(tool_call.function.arguments), on the argument texts the
\* model sends here: the object the text denotes, or JSONDecodeError
JsonLoads(text) ==
  CASE text = "{\"user_question\": \"hours?\"}" ->
         [raised |-> FALSE, obj |-> [user_question |-> "hours?"]]
    [] text = "{\"name\": \"Sami\", ..., \"grade\": \"University\", \"location\": \"Beirut\"}" ->
         [raised |-> FALSE,
          obj |-> [k \in Required("record_students_lead") |->
                     StudentArgs("University", "")[k]]]
    [] text = "{\"organization_name\": \"CodeLab\", ..., \"expected_participants\": \"about twenty\"}" ->
         [raised |-> FALSE, obj |-> WorkshopArgs("03 123456")]
    [] text = "{\"to\": \"team@eduzen\"}" ->
         [raised |-> FALSE, obj |-> [to |-> "team@eduzen"]]
    [] text = "{}" -> [raised |-> FALSE, obj |-> <<>>]
    [] text = "{\"user_question\": \"ho" ->
         [raised |-> TRUE, error |-> "Unterminated string starting at: line 1 column 19 (char 18)"]

\* the tool calls a model response may carry, without their ids
ToolRequests ==
  { [name |-> "record_feedback", arguments |-> "{\"user_question\": \"hours?\"}"],
    [name |-> "record_students_lead",
     arguments |-> "{\"name\": \"Sami\", ..., \"grade\": \"University\", \"location\": \"Beirut\"}"],
    [name |-> "record_workshops_lead",
     arguments |-> "{\"organization_name\": \"CodeLab\", ..., \"expected_participants\": \"about twenty\"}"],
    [name |-> "send_email", arguments |-> "{\"to\": \"team@eduzen\"}"],
    [name |-> "record_feedback", arguments |-> "{}"],
    [name |-> "record_feedback", arguments |-> "{\"user_question\": \"ho"],
    [name |-> "send_email", arguments |-> "{\"user_question\": \"ho"] }

\* the id the model gives the i-th tool call of a response
CallId(i) == <<"call_1", "call_2", "call_3", "call_4">>[i]

\* the tool_calls lists of a response: up to MaxToolCalls requests, each
\* with its own id
ToolCallLists ==
  UNION { { [i \in 1..n |-> [id |-> CallId(i), name |-> q[i].name,
                              arguments |-> q[i].arguments]] :
              q \in [1..n -> ToolRequests] } : n \in 1..MaxToolCalls }

\* what the user types, turn after turn
UserMessages ==
  <<"What are your opening hours?", "I need a math teacher", "Thank you",
    "Bye">>

\* the text the model answers with when it requests no tool, and the text
\* it may answer with after the tool results
ModelContents == {"Hello! How can I help you?"}

FinalContents == {"All set."}

SYSTEM_PROMPT == "<business summary> <instructions> <personality style>"

\* f"I apologize, but I encountered an error: {str(e)}. Please try again or
\* contact our support team."
ApologyFor(e) ==
  CASE e = "Connection error." ->
         "I apologize, but I encountered an error: Connection error.. Please try again or contact our support team."
    [] e = "Unterminated string starting at: line 1 column 19 (char 18)" ->
         "I apologize, but I encountered an error: Unterminated string starting at: line 1 column 19 (char 18). Please try again or contact our support team."
    [] e = "1 validation error" ->
         "I apologize, but I encountered an error: 1 validation error. Please try again or contact our support team."

\* messages = [system] + for each exchange its user and assistant text +
\* [the new user message]
RECURSIVE Replay(_)
Replay(h) ==
  IF h = <<>> THEN <<>>
  ELSE << [role |-> "user", content |-> h[1].user],
          [role |-> "assistant", content |-> h[1].assistant] >> \o Replay(Tail(h))

\* variant: the earlier turns are left out of the message list
BuildMessagesNoReplay(message, h) ==
  <<[role |-> "system", content |-> SYSTEM_PROMPT],
    [role |-> "user", content |-> message]>>

BuildMessages(message, h) ==
  <<[role |-> "system", content |-> SYSTEM_PROMPT]>> \o Replay(h)
    \o <<[role |-> "user", content |-> message]>>

\* variant: the new turn is put in front of the earlier turns
UpdatedHistoryPrepend(h, message, text) ==
  <<[user |-> message, assistant |-> text]>> \o h

\* updated_history = history.copy(); updated_history.append({...})
UpdatedHistory(h, message, text) ==
  Append(h, [user |-> message, assistant |-> text])

\* the return of chat on the normal path (lines 115-122)
Returned(t, text) ==
  [t EXCEPT !.pc = "returned", !.agent_response = text, !.failed = FALSE,
            !.ret = [response |-> text,
                     updated_history |-> UpdatedHistory(t.history, t.message, text)]]

\* variant: no except branch, the exception leaves chat
ExceptReraise(t, e) ==
  [t EXCEPT !.pc = "returned", !.failed = TRUE, !.raised = TRUE]

\* the except branch of chat (lines 124-132)
Except(t, e) ==
  [t EXCEPT !.pc = "returned", !.failed = TRUE,
            !.ret = [response |-> ApologyFor(e),
                     updated_history |-> UpdatedHistory(t.history, t.message,
                                                        ApologyFor(e))]]

NoReturn == [response |-> "<none>", updated_history |-> <<>>]

\* chat(message, history) is called: lines 50-62.  before keeps the files
\* as they were at the call.
Chat ==
  \E message \in {UserMessages[Len(history) + 1]} :
    /\ turn.pc = "idle"
    /\ Len(history) < MaxTurns
    /\ turn' = [pc |-> "first", message |-> message, history |-> history,
                messages |-> BuildMessages(message, history),
                tool_calls |-> <<>>, next |-> 1, agent_response |-> "",
                failed |-> FALSE, raised |-> FALSE, ret |-> NoReturn,
                before |-> files]
    /\ events' = <<>>
    /\ UNCHANGED <<storeVars, concVars, history, reactVars, ifaceVars>>

\* what client.chat.completions.create may do: raise, or answer with a
\* message
Raises == [raised |-> TRUE, content |-> "<raised>", tool_calls |-> <<>>]

Answer(content, calls) ==
  [raised |-> FALSE, content |-> content, tool_calls |-> calls]

FirstResponses ==
  {Raises} \cup {Answer(c, <<>>) : c \in ModelContents}
    \cup {Answer("", calls) : calls \in ToolCallLists}

\* a call of the model, as the history variable keeps it: the messages and
\* the tools sent, and what came back
Completion(msgs, tools, resp) ==
  [kind |-> "completion", messages |-> msgs, tools |-> tools,
   raised |-> resp.raised, content |-> resp.content,
   tool_calls |-> resp.tool_calls]

\* if response_message.tool_calls:
HasToolCallsAlways(response_message) == TRUE

HasToolCalls(response_message) == response_message.tool_calls # <<>>

\* the first completion (lines 66-81) and, when the response carries no
\* tool call, the return (lines 111-122)
FirstCompletion ==
  \E resp \in FirstResponses :
    /\ turn.pc = "first"
    /\ TotalRows + Len(resp.tool_calls) <= MaxChatRows
    /\ events' = Append(events, Completion(turn.messages, TOOLS_DEFINITIONS, resp))
    /\ turn' = IF resp.raised THEN Except(turn, "Connection error.")
               ELSE IF HasToolCalls(resp)
               THEN [turn EXCEPT
                       !.pc = "tools", !.tool_calls = resp.tool_calls,
                       !.messages = Append(@, [role |-> "assistant",
                                               content |-> resp.content,
                                               tool_calls |-> resp.tool_calls])]
               ELSE Returned(turn, resp.content)
    /\ UNCHANGED <<storeVars, concVars, history, reactVars, ifaceVars>>

\* for tool_call in response_message.tool_calls: has the loop ended
LoopDoneAfterFirst(t) == t.next > 1

LoopDone(t) == t.next > Len(t.tool_calls)

\* variant: no name is found in the dispatch mapping
IsAvailableNever(function_name) == FALSE

\* if function_name in AVAILABLE_FUNCTIONS:
IsAvailable(function_name) == function_name \in AVAILABLE_FUNCTIONS

\* the tool-result message appended after a handler ran (lines 94-99)
ToolMessage(tool_call, content) ==
  [tool_call_id |-> tool_call.id, role |-> "tool", name |-> tool_call.name,
   content |-> content]

\* one round of the loop over the tool calls (lines 84-99)
ToolCall ==
  /\ turn.pc = "tools"
  /\ ~LoopDone(turn)
  /\ turn.next <= Len(turn.tool_calls)
  /\ LET tool_call == turn.tool_calls[turn.next]
         function_name == tool_call.name
         parsed == JsonLoads(tool_call.arguments)
     IN IF parsed.raised
        THEN /\ turn' = Except(turn, parsed.error)
             /\ UNCHANGED <<files, now, written, events>>
        ELSE IF ~IsAvailable(function_name)
        THEN /\ turn' = [turn EXCEPT !.next = @ + 1]
             /\ UNCHANGED <<files, now, written, events>>
        ELSE \E t \in {now}, io \in {"ok", "write_error"} :
               LET r == Invoke(function_name, files, parsed.obj, t, io)
               IN IF r.raised
                  THEN /\ turn' = Except(turn, r.error)
                       /\ UNCHANGED <<files, now, written, events>>
                  ELSE /\ files' = r.fs
                       /\ now' = t
                       /\ written' =
                            IF r.saved
                            THEN [written EXCEPT ![FileOf(function_name)] =
                                    Append(@, [data |-> DataOf(FieldsOf(function_name), r.args),
                                               t |-> t])]
                            ELSE written
                       /\ events' = Append(events,
                            [kind |-> "tool", name |-> function_name,
                             id |-> tool_call.id, args |-> r.args,
                             saved |-> r.saved, content |-> r.content])
                       /\ turn' = [turn EXCEPT
                            !.next = @ + 1,
                            !.messages = Append(@, ToolMessage(tool_call, r.content))]
  /\ UNCHANGED <<ret, concVars, history, reactVars, ifaceVars>>

\* the texts of the tool-result messages in a message list
ToolContents(msgs) ==
  {msgs[i].content : i \in {j \in DOMAIN msgs : msgs[j].role = "tool"}}

\* the model's answer to the second call: it raises, answers in its own
\* words, or repeats the text of a tool result
FinalResponses(msgs) ==
  {Raises} \cup {Answer(c, <<>>) : c \in FinalContents \cup ToolContents(msgs)}

\* the second completion, with no tools offered, and the return
\* (lines 102-122)
\* variant: a failing second call puts the tables back as they were at the
\* call of chat
SecondCompletionRollsBack ==
  /\ turn.pc = "tools"
  /\ LoopDone(turn)
  /\ \E resp \in FinalResponses(turn.messages) :
       /\ events' = Append(events, Completion(turn.messages, <<>>, resp))
       /\ turn' = IF resp.raised THEN Except(turn, "Connection error.")
                  ELSE Returned(turn, resp.content)
       /\ files' = IF resp.raised THEN turn.before ELSE files
  /\ UNCHANGED <<now, written, ret, concVars, history, reactVars, ifaceVars>>

\* variant: the new turn is appended to the list the caller passed in
SecondCompletionAppendsInPlace ==
  /\ turn.pc = "tools"
  /\ LoopDone(turn)
  /\ \E resp \in FinalResponses(turn.messages) :
       /\ events' = Append(events, Completion(turn.messages, <<>>, resp))
       /\ turn' = IF resp.raised THEN Except(turn, "Connection error.")
                  ELSE Returned(turn, resp.content)
  /\ history' = turn'.ret.updated_history
  /\ UNCHANGED <<storeVars, concVars, reactVars, ifaceVars>>

SecondCompletion ==
  /\ turn.pc = "tools"
  /\ LoopDone(turn)
  /\ \E resp \in FinalResponses(turn.messages) :
       /\ events' = Append(events, Completion(turn.messages, <<>>, resp))
       /\ turn' = IF resp.raised THEN Except(turn, "Connection error.")
                  ELSE Returned(turn, resp.content)
  /\ UNCHANGED <<storeVars, concVars, history, reactVars, ifaceVars>>

\* the caller keeps the history chat returned and is ready for the next
\* message
NextMessage ==
  /\ turn.pc = "returned"
  /\ ~turn.raised
  /\ history' = turn.ret.updated_history
  /\ turn' = Idle
  /\ events' = <<>>
  /\ UNCHANGED <<storeVars, concVars, reactVars, ifaceVars>>

Next ==
  \/ Chat
  \/ FirstCompletion
  \/ ToolCall
  \/ SecondCompletion
  \/ NextMessage

Spec == Init /\ [][Next]_vars

\* ------------------------------------------------- claims on SpecStore
\* the fields of a supplied dict other than the timestamp the store assigns
SuppliedFields(data) == Range(data.keys) \ {"timestamp"}

\* Row i of the frame a get_* call returned stands for the i-th successful
\* append: the timestamp is the one assigned at that write and is not empty.
StampedRow(row, w) ==
  /\ "timestamp" \in DOMAIN row
  /\ row["timestamp"] = FormatTime(w.t)
  /\ row["timestamp"] \notin {"", NaN}

\* the frame has one row per successful append, in write order, and the
\* columns of the first record written plus the timestamp
OneRowPerAppend(frame, ws) ==
  /\ frame.type = "DataFrame"
  /\ Len(frame.rows) = Len(ws)
  /\ Range(frame.cols) = Range(ws[1].data.keys) \cup {"timestamp"}
  /\ \A i \in 1..Len(ws) : StampedRow(frame.rows[i], ws[i])

\* C1 (as stated): after N successful appends to a table that started
\* absent, get_* returns exactly N rows in write order, each holding the
\* supplied fields unchanged plus a non-empty timestamp, under the columns
\* of the record.
C1_AppendAccumulatesVerbatim ==
  (ret.op = "get" /\ ret.io = "ok" /\ written[ret.file] # <<>>) =>
    LET ws == written[ret.file]
    IN /\ OneRowPerAppend(ret.out, ws)
       /\ \A i \in 1..Len(ws) : \A k \in SuppliedFields(ws[i].data) :
            ret.out.rows[i][k] = ws[i].data.val[k]

\* C1 (amended): as above, except that a field supplied as the empty string
\* or as an NA literal is returned as a missing value (NaN); every other
\* supplied text is returned unchanged.
C1_AppendAccumulates ==
  (ret.op = "get" /\ ret.io = "ok" /\ written[ret.file] # <<>>) =>
    LET ws == written[ret.file]
    IN /\ OneRowPerAppend(ret.out, ws)
       /\ \A i \in 1..Len(ws) : \A k \in SuppliedFields(ws[i].data) :
            LET v == ws[i].data.val[k]
            IN /\ v \notin NAStrings => ret.out.rows[i][k] = v
               /\ v \in NAStrings => ret.out.rows[i][k] = NaN

\* two different records were appended to one table and read back
C1_Witness ==
  /\ ret.op = "get" /\ ret.io = "ok"
  /\ Len(written[ret.file]) = 2
  /\ written[ret.file][1].data # written[ret.file][2].data
  /\ ret.out.type = "DataFrame" /\ Len(ret.out.rows) = 2

\* the table of the last call has had no successful append
NeverWritten(f) == written[f] = <<>>

IoFailed(r) ==
  \/ r.io = "write_error"
  \/ r.io = "read_error" /\ r.before.exists

\* C4: every save_* call returns True or False and raises nothing; when the
\* read or the write fails it returns False.
C4_SaveNeverRaises ==
  ret.op = "save" =>
    /\ ~ret.raised
    /\ ret.out \in BOOLEAN
    /\ IoFailed(ret) => ret.out = FALSE

\* a save whose read of the existing sheet failed, and one whose write failed
C4_Witness ==
  /\ ret.op = "save" /\ ret.out = FALSE
  /\ ret.io = "read_error" /\ ret.before.exists

\* the community group a status text names
GroupNamed(text) ==
  CASE text = "Student lead recorded successfully! ... through our 'taleb w istez' WhatsApp group."
         -> "taleb w istez"
    [] text = "Student lead recorded successfully! ... through our 'telmiz w istez' WhatsApp group."
         -> "telmiz w istez"
    [] OTHER -> "none"

\* the lower-cased grade contains one of the six words somewhere
GradeHasUniversityWord(grade) ==
  LET g == Lower(Chars(grade))
  IN \E w \in {"university", "bachelor", "master", "phd", "undergraduate",
               "graduate"} :
       \E i \in 1..Len(g) : \E j \in i..Len(g) : SubSeq(g, i, j) = Chars(w)

\* C5: when the lead is stored, record_students_lead names 'taleb w istez'
\* if and only if the lower-cased grade contains one of university,
\* bachelor, master, phd, undergraduate, graduate, and 'telmiz w istez'
\* otherwise.
C5_RoutingRule ==
  (ret.op = "record" /\ ret.file = STUDENTS_FILE /\ ret.saved) =>
    /\ GradeHasUniversityWord(ret.arg.grade) =>
         GroupNamed(ret.out) = "taleb w istez"
    /\ ~GradeHasUniversityWord(ret.arg.grade) =>
         GroupNamed(ret.out) = "telmiz w istez"

\* a grade written in capitals was routed to the university group
C5_Witness ==
  /\ ret.op = "record" /\ ret.file = STUDENTS_FILE /\ ret.saved
  /\ ret.arg.grade = "MASTERS"
  /\ GroupNamed(ret.out) = "taleb w istez"

\* --------------------------------------------------- claims on SpecConc
\* the sheet row holds what append w supplied (texts read as missing aside)
\* and the timestamp of that append
RowIsAppend(row, w) ==
  /\ row["timestamp"] = FormatTime(w.t)
  /\ \A k \in SuppliedFields(w.data) :
       w.data.val[k] \notin NAStrings => row[k] = w.data.val[k]

\* C3: two callers appending to one table without locking can lose an
\* update.  Every append counted in written returned True; a table whose
\* writers never overlapped holds all of them in order, and a table rewritten
\* by a caller whose snapshot was stale holds fewer rows than appends that
\* reported success, the latest writer's row being the last.
C3_LostUpdate ==
  \A f \in Filenames :
    LET n == RowCount(files[f])
        w == written[f]
    IN /\ n <= Len(w)
       /\ raced[f] => n < Len(w)
       /\ ~raced[f] =>
            /\ n = Len(w)
            /\ \A i \in 1..n : RowIsAppend(files[f].rows[i], w[i])
       /\ n > 0 => RowIsAppend(files[f].rows[n], w[Len(w)])

\* both callers appended to the same table, both were told True, and the
\* table holds one row
C3_Witness ==
  /\ \A p \in Callers : procs[p].pc = "done" /\ procs[p].out = TRUE
  /\ procs["c1"].file = procs["c2"].file
  /\ Len(written[procs["c1"].file]) = 2
  /\ RowCount(files[procs["c1"].file]) = 1

\* ------------------------------------------------------- claims on Spec
\* the model calls among the events of the turn
Completions == {k \in DOMAIN events : events[k].kind = "completion"}

\* the response of the first model call requested tool calls
FirstRequestedTools ==
  /\ events # <<>>
  /\ ~events[1].raised
  /\ events[1].tool_calls # <<>>

\* the turn has returned a reply composed by the model
ReturnedNormally == turn.pc = "returned" /\ ~turn.failed /\ ~turn.raised

\* the request the claim is about: record_feedback with user_question only
IsMinimalFeedback(c) ==
  /\ c.name = "record_feedback"
  /\ c.arguments = "{\"user_question\": \"hours?\"}"

\* the feedback sheet holds a row with exactly these values and a timestamp
FeedbackRowStored(q, c, u, i) ==
  /\ files[FEEDBACK_FILE].exists
  /\ \E n \in DOMAIN files[FEEDBACK_FILE].rows :
       LET row == files[FEEDBACK_FILE].rows[n]
       IN /\ DOMAIN row = {"user_question", "category", "urgency",
                           "contact_info", "timestamp"}
          /\ row["user_question"] = q /\ row["category"] = c
          /\ row["urgency"] = u /\ row["contact_info"] = i
          /\ row["timestamp"] \in Range(TimeStrings)

BeginsWithIApologize(text) ==
  text \in
    {"I apologize, but I encountered an error: Connection error.. Please try again or contact our support team.",
     "I apologize, but I encountered an error: Unterminated string starting at: line 1 column 19 (char 18). Please try again or contact our support team.",
     "I apologize, but I encountered an error: 1 validation error. Please try again or contact our support team."}

\* something raised inside the try block of the turn: a model call, the
\* parsing of the arguments of the call the loop stands at, or its dispatch
SomethingRaised ==
  /\ turn.pc = "returned"
  /\ \/ \E k \in Completions : events[k].raised
     \/ FirstRequestedTools /\ turn.next <= Len(events[1].tool_calls)

\* C7: when a model call, the argument parsing or the tool dispatch raises,
\* chat raises nothing: it returns a reply that begins with 'I apologize'
\* and a history one longer than the input, whose new turn is the message
\* and the apology.
C7_FailureContained ==
  SomethingRaised =>
    /\ ~turn.raised
    /\ BeginsWithIApologize(turn.ret.response)
    /\ Len(turn.ret.updated_history) = Len(turn.history) + 1
    /\ turn.ret.updated_history[Len(turn.history) + 1] =
         [user |-> turn.message, assistant |-> turn.ret.response]

\* the second model call raised, after a handler had run, in a conversation
\* that already had a turn
C7_Witness ==
  /\ SomethingRaised
  /\ Len(events) = 3 /\ events[2].kind = "tool" /\ events[3].raised
  /\ Len(turn.history) = 1
  /\ BeginsWithIApologize(turn.ret.response)

\* C8: on every path the returned history is the input history, in order,
\* followed by one turn: the message passed in and the reply returned.
C8_HistoryExtendedByOne ==
  turn.pc = "returned" =>
    LET h == turn.history
        u == turn.ret.updated_history
    IN /\ ~turn.raised
       /\ h = history
       /\ Len(u) = Len(h) + 1
       /\ \A i \in 1..Len(h) : u[i] = h[i]
       /\ u[Len(u)].user = turn.message
       /\ u[Len(u)].user = UserMessages[Len(u)]
       /\ u[Len(u)].assistant = turn.ret.response

\* a turn with a tool call returned normally on a history that had a turn
C8_Witness ==
  /\ ReturnedNormally
  /\ Len(turn.history) = 1
  /\ Len(turn.ret.updated_history) = 2
  /\ \E j \in DOMAIN events : events[j].kind = "tool"

\* C9: when the first response carries no tool call the turn ends after one
\* model call, no handler runs, no record is written and the reply is the
\* content of that response.
C9_NoToolCallEndsTurn ==
  (events # <<>> /\ ~events[1].raised /\ events[1].tool_calls = <<>>) =>
    /\ ReturnedNormally
    /\ Len(events) = 1
    /\ events[1].kind = "completion"
    /\ turn.ret.response = events[1].content
    /\ files = turn.before

\* a second turn answered without tools while a table holds a record
C9_Witness ==
  /\ events # <<>> /\ ~events[1].raised /\ events[1].tool_calls = <<>>
  /\ ReturnedNormally
  /\ turn.ret.response = "Hello! How can I help you?"
  /\ Len(turn.history) = 1
  /\ TotalRows > 0

\* the requested calls whose name is declared, in request order
DeclaredCalls(calls) ==
  SelectSeq(calls, LAMBDA c : c.name \in {"record_students_lead",
                                          "record_workshops_lead",
                                          "record_feedback"})

\* C10: when the first response carries tool calls, a second model call is
\* issued only after every requested call with a declared name has run once,
\* in request order, each followed by a tool-result message keyed by its id;
\* the second call offers no tools, nothing runs after it, and its content is
\* the final reply.  A turn makes at most two model calls.
C10_ToolsThenSecondCall ==
  /\ Cardinality(Completions) <= 2
  /\ (events # <<>>) => events[1].kind = "completion"
                        /\ events[1].tools = TOOLS_DEFINITIONS
  /\ (ReturnedNormally /\ FirstRequestedTools) =>
       \E k \in Completions : k > 1
  /\ \A k \in Completions :
       k > 1 =>
         LET declared == DeclaredCalls(events[1].tool_calls)
             results == [i \in 1..Len(declared) |->
                           [tool_call_id |-> declared[i].id, role |-> "tool",
                            name |-> declared[i].name,
                            content |-> events[i + 1].content]]
         IN /\ FirstRequestedTools
            /\ k = Len(events)
            /\ k = Len(declared) + 2
            /\ \A i \in 1..Len(declared) :
                 /\ events[i + 1].kind = "tool"
                 /\ events[i + 1].id = declared[i].id
                 /\ events[i + 1].name = declared[i].name
            /\ events[k].tools = <<>>
            /\ events[k].messages =
                 events[1].messages
                   \o <<[role |-> "assistant", content |-> events[1].content,
                         tool_calls |-> events[1].tool_calls]>>
                   \o results
            /\ turn.pc = "returned"
            /\ ~events[k].raised => /\ ReturnedNormally
                                    /\ turn.ret.response = events[k].content

\* the response asked for two handlers; both ran, in order, before the
\* second call
C10_Witness ==
  /\ ReturnedNormally
  /\ Len(events) = 4
  /\ Len(events[1].tool_calls) = 2
  /\ events[2].kind = "tool" /\ events[2].name = "record_students_lead"
  /\ events[3].kind = "tool" /\ events[3].name = "record_feedback"
  /\ events[4].tools = <<>>

\* ------------------------------------------ the staged (ReAct) variant
\* A text is kept as the sequence of its pieces, in order; a text that
\* begins with "THINKING:" has that prefix as its first piece.
THINKING == "THINKING:"

\* content.startswith("THINKING:")
StartsWithThinking(content) == content # <<>> /\ content[1] = THINKING

\* f"THINKING: {reasoning_response.content}"
Thinking(content) == <<THINKING, " ">> \o content

\* HumanMessage, AIMessage, SystemMessage and ToolMessage of langchain_core
Message(type, content, tool_calls, tool_call_id, name) ==
  [type |-> type, content |-> content, tool_calls |-> tool_calls,
   tool_call_id |-> tool_call_id, name |-> name]

HumanMessage(content) == Message("human", content, <<>>, "", "")

AIMessage(content, tool_calls) == Message("ai", content, tool_calls, "", "")

SystemMessage(content) == Message("system", content, <<>>, "", "")

\* _create_system_prompt of the staged agent
REACT_SYSTEM_PROMPT == <<"You are EduZen Assistant, ... <business summary> ...">>

\* self.tools
ReActTools ==
  <<"record_students_lead", "record_workshops_lead", "record_feedback">>

\* what the user types, turn after turn
ReActMessages == << <<"Hello">>, <<"What are your opening hours?">>,
                    <<"Thank you">>, <<"Bye">> >>

\* what self.llm answers in the reasoning node: it raises, or it thinks
ReasoningResponses ==
  { [raised |-> TRUE, content |-> <<>>],
    [raised |-> FALSE, content |-> <<"The user wants information.">>] }

\* the tool_calls lists self.llm_with_tools may answer with
ReActToolCallLists ==
  { << [id |-> "call_1", name |-> "record_feedback",
        arguments |-> "{\"user_question\": \"hours?\"}"] >>,
    << [id |-> "call_1", name |-> "send_email",
        arguments |-> "{\"to\": \"team@eduzen\"}"],
       [id |-> "call_2", name |-> "record_feedback", arguments |-> "{}"] >> }

\* what self.llm_with_tools answers in the agent node: it raises, it
\* answers in plain words, it answers with a text that itself begins with
\* THINKING:, or it requests tools
AgentResponses ==
  { [raised |-> TRUE, content |-> <<>>, tool_calls |-> <<>>] }
    \cup { [raised |-> FALSE, content |-> c, tool_calls |-> <<>>] :
             c \in { <<"Welcome to EduZen!">>,
                     <<THINKING, " I can answer this directly.">> } }
    \cup { [raised |-> FALSE, content |-> <<>>, tool_calls |-> calls] :
             calls \in ReActToolCallLists }

\* ToolNode on what tool.invoke did: arguments that fail validation become
\* an error text in the tool message; otherwise the status text the handler
\* returned is the content
Handled(fs, r) ==
  IF r.raised
  THEN [fs |-> fs, ran |-> FALSE, saved |-> FALSE,
        content |-> <<"Error: ", r.error, "\n Please fix your mistakes.">>]
  ELSE [fs |-> r.fs, ran |-> TRUE, saved |-> r.saved,
        content |-> <<r.content>>, args |-> r.args]

\* ToolNode on one tool call: an unknown name becomes an error text in the
\* tool message; otherwise the tool is invoked
ToolNodeCall(call, fs, t, io) ==
  IF call.name \notin Range(ReActTools)
  THEN [fs |-> fs, ran |-> FALSE, saved |-> FALSE,
        content |-> <<"Error: ", call.name,
                      " is not a valid tool, try one of [record_students_lead, record_workshops_lead, record_feedback].">>]
  ELSE Handled(fs, Invoke(call.name, fs, JsonLoads(call.arguments).obj, t, io))

\* the files, the appends, the tool messages and the results so far, with
\* those of one more call, whose outcome is r
Collected(call, st, t, r) ==
  [fs |-> r.fs,
   written |-> IF r.saved
               THEN [st.written EXCEPT ![FileOf(call.name)] =
                       Append(@, [data |-> DataOf(FieldsOf(call.name), r.args),
                                  t |-> t])]
               ELSE st.written,
   messages |-> Append(st.messages,
                  Message("tool", r.content, <<>>, call.id, call.name)),
   results |-> Append(st.results,
                 [id |-> call.id, name |-> call.name, ran |-> r.ran,
                  saved |-> r.saved, content |-> r.content])]

\* ToolNode: the calls of the last AI message, in order; one tool message
\* for each, keyed by the id of the call.  Each intermediate result is bound
\* by a set constructor, so that it is computed once.
RECURSIVE RunTools(_, _, _, _, _)
RunTools(calls, i, st, t, ios) ==
  IF i > Len(calls) THEN st
  ELSE CHOOSE out \in
         {RunTools(calls, i + 1, next, t, ios) :
            next \in {Collected(calls[i], s, t, r) :
                        s \in {st},
                        r \in {ToolNodeCall(calls[i], st.fs, t, ios[i])}}} :
         TRUE

\* should_continue, with the last message not routed to the tools node
should_continueAlwaysEnd(messages) == "END"

\* should_continue (lines 114-123)
should_continue(messages) ==
  LET last_message == messages[Len(messages)]
  IN IF last_message.tool_calls # <<>> THEN "tools" ELSE "END"

\* the edges, with the tools node leading back to the reasoning node
EdgeToolsToReasoning(node) ==
  CASE node = "reasoning" -> "agent"
    [] node = "tools" -> "reasoning"

\* the edges, without the one that leads from the tools node back to the
\* agent node
EdgeToolsNowhere(node) ==
  CASE node = "reasoning" -> "agent"
    [] node = "tools" -> "halted"

\* workflow.add_edge("reasoning", "agent"); workflow.add_edge("tools", "agent")
Edge(node) ==
  CASE node = "reasoning" -> "agent"
    [] node = "tools" -> "agent"

ISSUE_APOLOGY ==
  <<"I apologize, but I encountered an issue processing your request. Please try again.">>

\* the reply chat takes from result["messages"] (lines 165-181)
FinalReply(messages) ==
  LET final_message == messages[Len(messages)]
      substantive == {i \in DOMAIN messages :
                        /\ messages[i].type = "ai"
                        /\ ~StartsWithThinking(messages[i].content)}
  IN IF final_message.type = "ai"
     THEN IF StartsWithThinking(final_message.content) /\ substantive # {}
          THEN messages[CHOOSE i \in substantive :
                          \A j \in substantive : j <= i].content
          ELSE final_message.content
     ELSE ISSUE_APOLOGY

\* f"I apologize, but I encountered an error: {str(e)}. Please try again or
\* contact our support team."
ReActApology(e) ==
  <<"I apologize, but I encountered an error: ", e,
    ". Please try again or contact our support team.">>

\* chat_with_history after chat returned response (lines 204-211)
ChatWithHistoryReturn(r, response, failed) ==
  [r EXCEPT !.pc = "returned", !.failed = failed,
            !.ret = [response |-> response,
                     updated_history |->
                       UpdatedHistory(r.history, r.message, response)]]

\* the except branch, with the graph entered again
ChatExceptRetry(r, e) == [r EXCEPT !.pc = "reasoning"]

\* the except branch of chat (lines 183-184)
ChatExcept(r, e) == ChatWithHistoryReturn(r, ReActApology(e), TRUE)

\* the messages the checkpointer holds
RECURSIVE StoredIn(_)
StoredIn(ids) ==
  IF ids = {} THEN 0
  ELSE LET thread_id == CHOOSE x \in ids : TRUE
       IN Len(checkpointer[thread_id]) + StoredIn(ids \ {thread_id})

Stored == StoredIn(ThreadIds)

\* chat_with_history has not returned yet
ReActNoReturn == [response |-> <<>>, updated_history |-> <<>>]

\* a messages channel that forgets what the thread held
add_messagesOverwrite(left, right) == right

\* the reducer of the messages channel of MessagesState (line 126): an
\* update is merged into what the thread already holds, after it
add_messages(left, right) == left \o right

\* chat_with_history(message, history, thread_id) is called; graph.invoke
\* writes the input to the messages channel of the thread (lines 157-163)
ChatWithHistory ==
  \E thread_id \in ThreadIds, message \in {ReActMessages[Len(history) + 1]} :
    /\ run.pc = "idle"
    /\ Len(history) < MaxReActTurns
    /\ Stored + 3 <= MaxMessages
    /\ checkpointer' = [checkpointer EXCEPT
                          ![thread_id] =
                            add_messages(@, <<HumanMessage(message)>>)]
    /\ run' = [op |-> "chat", pc |-> "reasoning", thread_id |-> thread_id,
               message |-> message, history |-> history, rounds |-> 0,
               failed |-> FALSE, ret |-> ReActNoReturn,
               before |-> checkpointer[thread_id],
               after_clear |-> cleared[thread_id]]
    /\ steps' = <<>>
    /\ cleared' = [cleared EXCEPT ![thread_id] = FALSE]
    /\ UNCHANGED <<storeVars, concVars, ifaceVars, chatVars, agent>>

\* reasoning_node (lines 80-100)
ReasoningNode ==
  /\ run.pc = "reasoning"
  /\ LET messages == checkpointer[run.thread_id]
         latest_message == messages[Len(messages)].content
     IN \E reasoning_response \in ReasoningResponses :
          /\ steps' = Append(steps,
               [node |-> "reasoning", input |-> latest_message,
                raised |-> reasoning_response.raised,
                content |-> reasoning_response.content])
          /\ IF reasoning_response.raised
             THEN /\ run' = ChatExcept(run, "Connection error.")
                  /\ UNCHANGED checkpointer
             ELSE /\ checkpointer' = [checkpointer EXCEPT ![run.thread_id] =
                       Append(messages,
                              AIMessage(Thinking(reasoning_response.content), <<>>))]
                  /\ run' = [run EXCEPT !.pc = Edge("reasoning")]
  /\ UNCHANGED <<storeVars, concVars, ifaceVars, chatVars, agent, cleared>>

\* agent_node (lines 102-112), should_continue, and when the graph ends the
\* return of chat and of chat_with_history
AgentNode ==
  /\ run.pc = "agent"
  /\ LET messages == checkpointer[run.thread_id]
         formatted_messages == <<SystemMessage(REACT_SYSTEM_PROMPT)>> \o messages
     IN \E response \in AgentResponses :
          /\ response.tool_calls # <<>> =>
               /\ run.rounds < MaxRounds
               /\ Stored + Len(response.tool_calls) + 2 <= MaxMessages
               /\ TotalRows + Len(response.tool_calls) <= MaxChatRows
          /\ IF response.raised
             THEN /\ steps' = Append(steps,
                       [node |-> "agent", messages |-> formatted_messages,
                        raised |-> TRUE, content |-> <<>>, tool_calls |-> <<>>])
                  /\ run' = ChatExcept(run, "Connection error.")
                  /\ UNCHANGED checkpointer
             ELSE LET result == Append(messages,
                                  AIMessage(response.content, response.tool_calls))
                      agent_step == [node |-> "agent",
                                     messages |-> formatted_messages,
                                     raised |-> FALSE,
                                     content |-> response.content,
                                     tool_calls |-> response.tool_calls]
                  IN /\ checkpointer' = [checkpointer EXCEPT
                                           ![run.thread_id] = result]
                     /\ IF should_continue(result) = "tools"
                        THEN /\ run' = [run EXCEPT !.pc = "tools"]
                             /\ steps' = Append(steps, agent_step)
                        ELSE /\ run' = ChatWithHistoryReturn(run,
                                         FinalReply(result), FALSE)
                             /\ steps' = steps \o <<agent_step, [node |-> "END"]>>
  /\ UNCHANGED <<storeVars, concVars, ifaceVars, chatVars, agent, cleared>>

\* the tools node: ToolNode(self.tools) on the last AI message
ToolsNode ==
  /\ run.pc = "tools"
  /\ LET messages == checkpointer[run.thread_id]
         calls == messages[Len(messages)].tool_calls
     IN \E t \in {now}, ios \in [1..Len(calls) -> {"ok", "write_error"}] :
          \E r \in {RunTools(calls, 1,
                       [fs |-> files, written |-> written, messages |-> <<>>,
                        results |-> <<>>], t, ios)} :
             /\ files' = r.fs
             /\ written' = r.written
             /\ checkpointer' = [checkpointer EXCEPT
                                   ![run.thread_id] = messages \o r.messages]
             /\ steps' = Append(steps, [node |-> "tools", calls |-> calls,
                                        results |-> r.results])
             /\ run' = [run EXCEPT !.pc = Edge("tools"), !.rounds = @ + 1]
  /\ UNCHANGED <<now, ret, concVars, ifaceVars, chatVars, agent, cleared>>

\* clear_history(thread_id) (lines 221-229)
ClearHistory ==
  \E thread_id \in ThreadIds :
    /\ run.pc = "idle"
    /\ run' = [op |-> "clear", pc |-> "returned", thread_id |-> thread_id,
               ret |-> TRUE, before |-> checkpointer[thread_id],
               again |-> cleared[thread_id]]
    /\ cleared' = [cleared EXCEPT ![thread_id] = TRUE]
    /\ steps' = <<>>
    /\ UNCHANGED <<storeVars, concVars, ifaceVars, chatVars, agent, checkpointer>>

\* the caller keeps the history chat_with_history returned and is ready
\* for the next call
ReActNext ==
  /\ run.pc = "returned"
  /\ history' = IF run.op = "chat" THEN run.ret.updated_history ELSE history
  /\ run' = Idle
  /\ steps' = <<>>
  /\ UNCHANGED <<storeVars, concVars, ifaceVars, turn, events, agent, checkpointer, cleared>>

NextReAct ==
  \/ ChatWithHistory
  \/ ReasoningNode
  \/ AgentNode
  \/ ToolsNode
  \/ ClearHistory
  \/ ReActNext

SpecReAct == Init /\ [][NextReAct]_vars

\* --------------------------------------------------- claims on SpecReAct
\* the steps of the turn that ran a given node
StepsAt(node) == {i \in DOMAIN steps : steps[i].node = node}

\* step i was a DECIDE whose response requested tools / requested none
RequestedTools(i) ==
  /\ i \in StepsAt("agent")
  /\ ~steps[i].raised
  /\ steps[i].tool_calls # <<>>

RequestedNone(i) ==
  /\ i \in StepsAt("agent")
  /\ ~steps[i].raised
  /\ steps[i].tool_calls = <<>>

\* the staged turn returned a reply taken from the graph's result
EndedNormally == run.pc = "returned" /\ run.op = "chat" /\ ~run.failed

\* C11: a staged turn visits REASON, DECIDE, then (TOOLS, DECIDE) pairs,
\* then END: REASON runs once and first, TOOLS is entered only from a DECIDE
\* that requested tool calls, every TOOLS is followed by DECIDE, and END is
\* reached only from a DECIDE that requested no tool call.
C11_NodeOrder ==
  /\ steps # <<>> => steps[1].node = "reasoning"
  /\ StepsAt("reasoning") \subseteq {1}
  /\ \A i \in StepsAt("agent") :
       i > 1 /\ steps[i - 1].node \in {"reasoning", "tools"}
             /\ (steps[i - 1].node = "reasoning" => ~steps[i - 1].raised)
  /\ \A i \in StepsAt("tools") :
       /\ i > 1 /\ RequestedTools(i - 1)
       /\ IF i < Len(steps) THEN steps[i + 1].node = "agent"
          ELSE run.pc = "agent"
  /\ \A i \in StepsAt("END") :
       i = Len(steps) /\ i > 1 /\ RequestedNone(i - 1)
  /\ \A i \in DOMAIN steps :
       /\ RequestedTools(i) =>
            IF i < Len(steps) THEN steps[i + 1].node = "tools"
            ELSE run.pc = "tools"
       /\ RequestedNone(i) => i + 1 = Len(steps) /\ steps[i + 1].node = "END"
  /\ EndedNormally <=> StepsAt("END") # {}

\* a turn with one tool round reached END
C11_Witness ==
  /\ EndedNormally
  /\ Len(steps) = 5
  /\ steps[1].node = "reasoning" /\ steps[2].node = "agent"
  /\ steps[3].node = "tools" /\ steps[4].node = "agent"
  /\ steps[5].node = "END"

Untagged(messages) ==
  {i \in DOMAIN messages : /\ messages[i].type = "ai"
                           /\ ~StartsWithThinking(messages[i].content)}

\* C13 (as stated): when a staged turn reaches END the reply is the content
\* of the latest assistant message of the final sequence that is not tagged
\* as a reasoning trace, and a tagged text is never the reply.
C13_ReplyIsLatestUntagged ==
  EndedNormally =>
    LET final == checkpointer[run.thread_id]
    IN /\ ~StartsWithThinking(run.ret.response)
       /\ Untagged(final) # {}
       /\ \E i \in Untagged(final) :
            /\ \A j \in Untagged(final) : j <= i
            /\ run.ret.response = final[i].content

\* the turn ended and every assistant message of the thread is tagged: the
\* reply is the tagged text of the last one
C13_Witness ==
  /\ EndedNormally
  /\ Untagged(checkpointer[run.thread_id]) = {}
  /\ StartsWithThinking(run.ret.response)

\* the reasoning texts the turn produced, in order, without the prefix
ReasoningTexts ==
  [k \in 1..Cardinality(StepsAt("reasoning")) |-> steps[1].content]

\* C14 (as stated): the staged variant returns, alongside the reply, a
\* separate list of the reasoning texts produced during the run, in order,
\* without the tagging prefix, and never puts them into the reply.
C14_ReasoningStepsReturned ==
  EndedNormally =>
    /\ "reasoning_steps" \in DOMAIN run.ret
    /\ run.ret.reasoning_steps = ReasoningTexts
    /\ run.ret.response # <<THINKING, " ">> \o steps[1].content

\* chat_with_history returned its pair: the reply and the updated history
C14_Witness ==
  /\ EndedNormally
  /\ DOMAIN run.ret = {"response", "updated_history"}
  /\ ReasoningTexts = << <<"The user wants information.">> >>

\* C15 (as stated): clear_history reports success and leaves the thread's
\* stored messages empty, also when called again, and a chat call after it
\* is sent none of the earlier messages.
C15_ClearEmptiesThread ==
  /\ (run.pc = "returned" /\ run.op = "clear") =>
       /\ run.ret = TRUE
       /\ checkpointer[run.thread_id] = <<>>
  /\ (run.pc # "idle" /\ run.op = "chat" /\ run.after_clear) =>
       /\ run.before = <<>>
       /\ \A i \in StepsAt("agent") :
            steps[i].messages[2] = HumanMessage(run.message)

\* clear_history returned True on a thread that holds an earlier turn, and
\* the thread still holds it
C15_Witness ==
  /\ run.pc = "returned" /\ run.op = "clear"
  /\ run.ret = TRUE
  /\ checkpointer[run.thread_id] # <<>>
  /\ checkpointer[run.thread_id] = run.before

\* C16 (as stated): when a model call fails during a staged turn, chat
\* returns the apology and the thread's checkpointed messages afterwards
\* hold both the user's message and the apology.
C16_ApologyInThread ==
  (run.pc = "returned" /\ run.op = "chat" /\ run.failed) =>
    LET stored == checkpointer[run.thread_id]
    IN /\ run.ret.response = <<"I apologize, but I encountered an error: ",
                               "Connection error.",
                               ". Please try again or contact our support team.">>
       /\ \E i \in DOMAIN stored :
            stored[i].type = "human" /\ stored[i].content = run.message
       /\ \E i \in DOMAIN stored :
            stored[i].type = "ai" /\ stored[i].content = run.ret.response

\* the turn failed: the thread holds the user's message, and the apology is
\* only in the list chat_with_history returned
C16_Witness ==
  /\ run.pc = "returned" /\ run.op = "chat" /\ run.failed
  /\ checkpointer[run.thread_id][Len(run.before) + 1] = HumanMessage(run.message)
  /\ \A i \in DOMAIN checkpointer[run.thread_id] :
       checkpointer[run.thread_id][i].content # run.ret.response
  /\ run.ret.updated_history[Len(run.ret.updated_history)].assistant =
       run.ret.response

\* ------------------------------------ SpecAgents: a session with one agent
\* create_agent() of vanilla_agent.py or of react_lg_agent.py
CreateAgent ==
  \E kind \in {"vanilla", "react"} :
    /\ agent = "none"
    /\ agent' = kind
    /\ UNCHANGED <<storeVars, concVars, ifaceVars, chatVars, checkpointer, run, steps, cleared>>

\* the session talks to the agent it created
VanillaStep == agent = "vanilla" /\ Next

ReActStep == agent = "react" /\ NextReAct

NextAgents ==
  \/ CreateAgent
  \/ VanillaStep
  \/ ReActStep

SpecAgents == Init /\ [][NextAgents]_vars

\* --------------------------------------------------- claims on SpecAgents
\* the handler runs among the events of a direct turn
ToolRuns == {k \in DOMAIN events : events[k].kind = "tool"}

\* C17: a failed turn performs no retry and does not abort the session:
\* once a model call or a tool dispatch raises inside chat, nothing more
\* runs in that turn (the raising step is its last), chat has returned, and
\* the next chat call on the same agent is accepted.
C17_NoRetryNoAbort ==
  /\ \A i \in DOMAIN steps :
       (steps[i].node \in {"reasoning", "agent"} /\ steps[i].raised) =>
         i = Len(steps) /\ run.pc = "returned" /\ run.failed
  /\ (run.pc = "returned" /\ run.op = "chat" /\ run.failed) =>
       /\ steps # <<>>
       /\ steps[Len(steps)].node \in {"reasoning", "agent"}
       /\ steps[Len(steps)].raised
  /\ (agent = "react" /\ run.pc = "returned") =>
       /\ ~ENABLED (ReasoningNode \/ AgentNode \/ ToolsNode)
       /\ ENABLED ReActNext
  /\ (agent = "react" /\ run.pc = "idle" /\ Len(history) < MaxReActTurns
        /\ Stored + 3 <= MaxMessages) => ENABLED ChatWithHistory
  /\ \A k \in Completions :
       events[k].raised =>
         k = Len(events) /\ turn.pc = "returned" /\ turn.failed
  /\ (turn.pc = "returned" /\ turn.failed) =>
       \/ events[Len(events)].kind = "completion" /\ events[Len(events)].raised
       \/ /\ turn.next <= Len(turn.tool_calls)
          /\ Cardinality(Completions) = 1
          /\ Cardinality(ToolRuns) < turn.next
  /\ (agent = "vanilla" /\ turn.pc = "returned") =>
       /\ ~ENABLED (FirstCompletion \/ ToolCall \/ SecondCompletion)
       /\ ENABLED NextMessage
  /\ (agent = "vanilla" /\ turn.pc = "idle" /\ Len(history) < MaxTurns) =>
       ENABLED Chat

\* the first turn failed with an apology and the second turn, on the same
\* agent, ran a handler and returned the model's reply
C17_Witness ==
  /\ agent = "vanilla"
  /\ turn.pc = "returned" /\ ~turn.failed
  /\ Len(turn.history) = 1
  /\ turn.history[1].assistant =
       "I apologize, but I encountered an error: Connection error.. Please try again or contact our support team."
  /\ ToolRuns # {}
  /\ turn.ret.response = "All set."

\* -------------------------------------------------- more claims on Spec
\* the failure status text of each handler
FailureText(name) ==
  CASE name = "record_students_lead" ->
         "Sorry, there was an error recording your information."
    [] name = "record_workshops_lead" ->
         "Sorry, there was an error recording your program information."
    [] name = "record_feedback" ->
         "Sorry, there was an error recording your feedback."

\* the argument texts of the requests that json.loads and the handler's
\* signature accept
WellFormed(c) ==
  c.arguments \in
    {"{\"user_question\": \"hours?\"}",
     "{\"name\": \"Sami\", ..., \"grade\": \"University\", \"location\": \"Beirut\"}",
     "{\"organization_name\": \"CodeLab\", ..., \"expected_participants\": \"about twenty\"}"}

\* C18: when the append fails, the handler raises nothing and returns its
\* failure text (no success text, no group name); the direct variant
\* appends that text as the tool-result message of the call, goes on with
\* the loop, and still issues the second model call.
C18_StoreFailureIsStatusText ==
  /\ \A k \in ToolRuns :
       ~events[k].saved =>
         LET e == events[k]
             m == [tool_call_id |-> e.id, role |-> "tool", name |-> e.name,
                   content |-> FailureText(e.name)]
         IN /\ e.content = FailureText(e.name)
            /\ m \in Range(turn.messages)
            /\ \E i \in DOMAIN turn.tool_calls :
                 turn.tool_calls[i].id = e.id /\ turn.next > i
            /\ (turn.pc = "returned" /\ turn.next > Len(turn.tool_calls)) =>
                 \E c \in Completions :
                   c > k /\ events[c].tools = <<>>
                         /\ m \in Range(events[c].messages)
  /\ (turn.pc = "returned" /\ turn.failed
        /\ ~(events[Len(events)].kind = "completion"
               /\ events[Len(events)].raised)) =>
       ~WellFormed(turn.tool_calls[turn.next])
  /\ (turn.pc = "tools" /\ LoopDone(turn)) => ENABLED SecondCompletion
  /\ turn.pc # "idle" => ~turn.raised

\* the append of a student lead failed; the model was called again and the
\* turn returned its reply
C18_Witness ==
  /\ ReturnedNormally
  /\ \E k \in ToolRuns :
       /\ events[k].name = "record_students_lead"
       /\ ~events[k].saved
       /\ events[k].content = "Sorry, there was an error recording your information."
       /\ files[STUDENTS_FILE] = turn.before[STUDENTS_FILE]
  /\ turn.ret.response = "Sorry, there was an error recording your information."

\* the three tools, each with the table its handler writes and the status
\* texts its handler returns
Registry ==
  [record_students_lead |->
     [file |-> "students_leads.xlsx",
      texts |-> {"Student lead recorded successfully! ... through our 'taleb w istez' WhatsApp group.",
                 "Student lead recorded successfully! ... through our 'telmiz w istez' WhatsApp group.",
                 "Sorry, there was an error recording your information."}],
   record_workshops_lead |->
     [file |-> "workshops_leads.xlsx",
      texts |-> {"Workshop/program lead recorded successfully! ... our 'motadareb w khabeer' WhatsApp group.",
                 "Sorry, there was an error recording your program information."}],
   record_feedback |->
     [file |-> "feedback.xlsx",
      texts |-> {"Thank you for your feedback! Your question has been recorded.",
                 "Sorry, there was an error recording your feedback."}]]

\* C19: the Tool Registry is a fixed set of three tools: the names declared
\* to the model are record_students_lead, record_workshops_lead and
\* record_feedback, they are the keys of the dispatch mapping, each key
\* runs the handler of its name, and the set is the same at every model
\* call and every dispatch.
C19_RegistryFixed ==
  /\ Len(TOOLS_DEFINITIONS) = 3
  /\ Range(TOOLS_DEFINITIONS) = DOMAIN Registry
  /\ AVAILABLE_FUNCTIONS = DOMAIN Registry
  /\ Range(ReActTools) = DOMAIN Registry
  /\ \A k \in Completions :
       events[k].tools # <<>> =>
         events[k].tools = <<"record_students_lead", "record_workshops_lead",
                             "record_feedback">>
  /\ \A k \in ToolRuns :
       LET e == events[k]
       IN /\ e.name \in DOMAIN Registry
          /\ e.content \in Registry[e.name].texts
          /\ e.saved =>
               /\ files[Registry[e.name].file].exists
               /\ RowCount(files[Registry[e.name].file]) >
                    RowCount(turn.before[Registry[e.name].file])
          /\ \A f \in Filenames \ {Registry[e.name].file} :
               RowCount(files[f]) - RowCount(turn.before[f]) =
                 Cardinality({j \in ToolRuns : /\ events[j].saved
                                               /\ Registry[events[j].name].file = f})
  /\ turn.pc \in {"tools", "returned"} =>
       \A i \in DOMAIN turn.tool_calls :
         (turn.next > i /\ turn.tool_calls[i].name \in DOMAIN Registry) =>
           \E k \in ToolRuns : events[k].id = turn.tool_calls[i].id

\* a turn dispatched to two different handlers and each wrote its own table
C19_Witness ==
  /\ ReturnedNormally
  /\ Len(events) = 4
  /\ events[1].tools = TOOLS_DEFINITIONS
  /\ events[2].kind = "tool" /\ events[2].name = "record_workshops_lead"
  /\ events[2].saved
  /\ events[3].kind = "tool" /\ events[3].name = "record_feedback"
  /\ events[3].saved
  /\ RowCount(files[WORKSHOPS_FILE]) = RowCount(turn.before[WORKSHOPS_FILE]) + 1
  /\ RowCount(files[FEEDBACK_FILE]) = RowCount(turn.before[FEEDBACK_FILE]) + 1

\* ---------------------------------------------- more claims on SpecStore
\* C20: the timestamp of every stored record is the one the append assigned
\* at write time: a timestamp in the caller's record is overwritten, and no
\* stored row lacks a timestamp.
C20_TimestampAssignedAtWrite ==
  /\ \A f \in Filenames :
       files[f].exists =>
         /\ Len(files[f].rows) = Len(written[f])
         /\ \A i \in DOMAIN files[f].rows :
              /\ "timestamp" \in DOMAIN files[f].rows[i]
              /\ files[f].rows[i]["timestamp"] = TimeStrings[written[f][i].t + 1]
              /\ files[f].rows[i]["timestamp"] # ""
  /\ (ret.op = "save" /\ ret.out = TRUE) =>
       LET rows == files[ret.file].rows
           stamp == rows[Len(rows)]["timestamp"]
       IN /\ stamp = TimeStrings[now + 1]
          /\ "timestamp" \in Range(ret.arg.keys) =>
               stamp # ret.arg.val["timestamp"]

\* a record that came with its own timestamp was appended to a table that
\* already held a row, and the stored row has the time of the write
C20_Witness ==
  /\ ret.op = "save" /\ ret.out = TRUE
  /\ "timestamp" \in Range(ret.arg.keys)
  /\ ret.arg.val["timestamp"] = "yesterday"
  /\ Len(files[ret.file].rows) = 2
  /\ files[ret.file].rows[2]["timestamp"] = TimeStrings[now + 1]
  /\ now = 1
\* the sequence p is an initial part of the sequence s
IsPrefix(p, s) ==
  /\ Len(p) <= Len(s)
  /\ \A i \in DOMAIN p : s[i] = p[i]

\* C21: the staged history is kept per thread id and only grows: during a call
\* the thread holds everything it held before the call, in order, followed by
\* the new user message, every DECIDE step is given the system prompt followed
\* by exactly that sequence and what the turn added since, and no step changes
\* the messages of another thread or removes a message from its own.
C21_ThreadAppendOnly ==
  /\ [](run.pc # "idle" /\ run.op = "chat" =>
         LET stored == checkpointer[run.thread_id]
             n == Len(run.before)
         IN /\ IsPrefix(run.before, stored)
            /\ Len(stored) > n
            /\ stored[n + 1] = HumanMessage(run.message)
            /\ \A i \in StepsAt("agent") :
                 /\ steps[i].messages[1] = SystemMessage(REACT_SYSTEM_PROMPT)
                 /\ IsPrefix(run.before \o <<HumanMessage(run.message)>>,
                             Tail(steps[i].messages))
                 /\ IsPrefix(Tail(steps[i].messages), stored))
  /\ [][\A thread_id \in ThreadIds :
          checkpointer'[thread_id] # checkpointer[thread_id] =>
            /\ run'.pc # "idle"
            /\ run'.thread_id = thread_id
            /\ IsPrefix(checkpointer[thread_id], checkpointer'[thread_id])]_vars

\* a second call on a thread that already holds the messages of an earlier
\* turn reached DECIDE and ended
C21_Witness ==
  /\ run.pc = "returned" /\ run.op = "chat" /\ ~run.failed
  /\ Len(run.before) >= 3
  /\ \E i \in StepsAt("agent") :
       Len(steps[i].messages) >= Len(run.before) + 3

\* the message list given to the first model call of the direct turn
FirstCallMessages == events[1].messages

\* C22: with k earlier turns in the history the first model call of a direct
\* turn is given 2k + 2 messages: the system prompt, then for each earlier
\* turn in order its user message and its assistant message, then the new
\* user message last.
C22_FirstCallMessageList ==
  (turn.pc # "idle" /\ events # <<>>) =>
    LET h == turn.history
        k == Len(h)
    IN /\ events[1].kind = "completion"
       /\ Len(FirstCallMessages) = 2 * k + 2
       /\ FirstCallMessages[1] = [role |-> "system", content |-> SYSTEM_PROMPT]
       /\ \A i \in 1..k :
            /\ FirstCallMessages[2 * i] =
                 [role |-> "user", content |-> h[i].user]
            /\ FirstCallMessages[2 * i + 1] =
                 [role |-> "assistant", content |-> h[i].assistant]
       /\ FirstCallMessages[2 * k + 2] =
            [role |-> "user", content |-> turn.message]

\* the first model call of a turn that follows an earlier turn was made
C22_Witness ==
  /\ turn.pc # "idle" /\ events # <<>>
  /\ turn.history # <<>>
  /\ Len(FirstCallMessages) = 2 * Len(turn.history) + 2
  /\ FirstCallMessages[3].content = history[1].assistant

\* the requested calls of the turn whose name is not a key of the registry
UnknownCalls ==
  {i \in DOMAIN turn.tool_calls : turn.tool_calls[i].name \notin DOMAIN Registry}

\* the turn ended in the except branch while it was handling tool call i
FailedAt(i) ==
  /\ turn.pc = "returned"
  /\ turn.failed
  /\ turn.next = i
  /\ \A k \in Completions : ~events[k].raised

\* tool call i left no trace: no handler ran for it and no tool-result
\* message carries its id
NoTrace(i) ==
  /\ \A k \in ToolRuns : events[k].id # turn.tool_calls[i].id
  /\ \A j \in DOMAIN turn.messages :
       turn.messages[j].role = "tool" =>
         turn.messages[j].tool_call_id # turn.tool_calls[i].id

\* every row the turn added to a table was added by a handler that ran
RowsAccounted ==
  \A f \in Filenames :
    RowCount(files[f]) - RowCount(turn.before[f]) =
      Cardinality({k \in ToolRuns : /\ events[k].saved
                                    /\ FileOf(events[k].name) = f})

\* the calls after an ignored one are handled and the loop goes on to the
\* second model call
LoopProceeds ==
  /\ \A i \in DOMAIN turn.tool_calls :
       (turn.next > i /\ turn.tool_calls[i].name \in DOMAIN Registry) =>
         \E k \in ToolRuns : events[k].id = turn.tool_calls[i].id
  /\ (ReturnedNormally /\ turn.tool_calls # <<>>) =>
       /\ turn.next = Len(turn.tool_calls) + 1
       /\ Cardinality(Completions) = 2
       /\ events[Len(events)].kind = "completion"

\* C23 (as stated): in the direct variant a tool call whose name is not in the
\* registry is silently ignored: no handler runs, no tool-result message is
\* added for it, no record is written, no error is raised, and the other
\* tool calls and the second model call proceed.
C23_UnknownNameIgnored ==
  turn.pc \in {"tools", "returned"} =>
    /\ \A i \in UnknownCalls :
         /\ ~FailedAt(i)
         /\ turn.next > i => NoTrace(i)
    /\ RowsAccounted
    /\ LoopProceeds

\* C23 (amended): the arguments of a tool call are parsed before its name is
\* looked up. A call with an unknown name whose arguments parse is silently
\* ignored as stated; a call with an unknown name whose arguments do not
\* parse raises, and the turn ends there with the apology.
C23_UnknownNameIgnoredIfParsable ==
  turn.pc \in {"tools", "returned"} =>
    /\ \A i \in UnknownCalls :
         /\ FailedAt(i) <=> (/\ turn.pc = "returned"
                              /\ turn.next = i
                              /\ JsonLoads(turn.tool_calls[i].arguments).raised)
         /\ FailedAt(i) => BeginsWithIApologize(turn.ret.response)
         /\ turn.next > i =>
              /\ ~JsonLoads(turn.tool_calls[i].arguments).raised
              /\ NoTrace(i)
    /\ RowsAccounted
    /\ LoopProceeds

\* a turn whose first call had an unknown name and whose second call was
\* record_feedback returned the model's reply after one handler run
C23_Witness ==
  /\ ReturnedNormally
  /\ Len(turn.tool_calls) = 2
  /\ 1 \in UnknownCalls
  /\ NoTrace(1)
  /\ Cardinality(ToolRuns) = 1
  /\ Cardinality(Completions) = 2

\* C24 (as stated): when the final message sequence of a staged turn holds no
\* assistant message that is not tagged as a reasoning trace, chat returns the
\* generic apology and not a reasoning-tagged text.
C24_ApologyWhenAllTagged ==
  (EndedNormally /\ Untagged(checkpointer[run.thread_id]) = {}) =>
    /\ run.ret.response = ISSUE_APOLOGY
    /\ ~StartsWithThinking(run.ret.response)

\* the DECIDE step answered with a tagged text and no tool call on a thread
\* without untagged assistant messages: chat returned that text, not the
\* generic apology
C24_Witness ==
  /\ EndedNormally
  /\ Untagged(checkpointer[run.thread_id]) = {}
  /\ \E i \in StepsAt("agent") :
       /\ RequestedNone(i)
       /\ run.ret.response = steps[i].content
  /\ run.ret.response # ISSUE_APOLOGY

\* C25: the direct chat never changes the history list the caller passes
\* in: from the call to the return, on every path, the caller's list holds
\* the turns it held at the call, and the new turn is found only in the copy
\* chat returns; the caller's list changes only when the caller replaces it.
C25_CallerHistoryUntouched ==
  /\ [](turn.pc # "idle" =>
         /\ history = turn.history
         /\ (turn.pc = "returned" /\ ~turn.raised) =>
              LET updated_history == turn.ret.updated_history
                  new == [user |-> turn.message, assistant |-> turn.ret.response]
              IN /\ updated_history = history \o <<new>>
                 /\ Len(history) = Len(updated_history) - 1
                 /\ history # updated_history)
  /\ [][turn.pc # "returned" => history' = history]_vars

\* a turn called with one earlier turn ran a handler and then failed in the
\* second model call: the caller's list still holds that one turn
C25_Witness ==
  /\ turn.pc = "returned" /\ turn.failed
  /\ ToolRuns # {}
  /\ Len(history) = 1
  /\ history = turn.history
  /\ Len(turn.ret.updated_history) = 2
  /\ events[Len(events)].kind = "completion"

\* the handler runs of the turn that stored a record
SavedRuns == {k \in ToolRuns : events[k].saved}

\* C26: tool side effects are not rolled back when a direct turn fails: every
\* record a handler of the turn stored is still in its table when chat has
\* returned the apology, whether the failure was a later tool call or the
\* second model call, and no step of the chat removes a row from a table; an
\* apology reply does not mean that nothing was recorded.
C26_NoRollback ==
  /\ []((turn.pc = "returned" /\ turn.failed /\ ~turn.raised) =>
         /\ BeginsWithIApologize(turn.ret.response)
         /\ \A k \in SavedRuns :
              /\ files[FileOf(events[k].name)].exists
              /\ RowCount(files[FileOf(events[k].name)]) >
                   RowCount(turn.before[FileOf(events[k].name)])
         /\ RowsAccounted)
  /\ [][\A f \in Filenames : RowCount(files'[f]) >= RowCount(files[f])]_vars

\* the first tool call stored a feedback record, the arguments of the second
\* did not parse: the reply is the apology and the record is in the table
C26_Witness ==
  /\ turn.pc = "returned" /\ turn.failed
  /\ BeginsWithIApologize(turn.ret.response)
  /\ Len(turn.tool_calls) = 2 /\ turn.next = 2
  /\ SavedRuns # {}
  /\ RowCount(files[FEEDBACK_FILE]) = RowCount(turn.before[FEEDBACK_FILE]) + 1

\* C27: on every staged run that ends without an exception the last message
\* of the final sequence is the assistant message of the last DECIDE step and
\* carries no tool call, so chat takes its reply from an assistant message
\* and never returns the 'issue processing your request' apology.
C27_EndsOnDecideAnswer ==
  /\ EndedNormally =>
       LET final == checkpointer[run.thread_id]
           last == final[Len(final)]
           n == Len(steps)
       IN /\ last.type = "ai"
          /\ last.tool_calls = <<>>
          /\ n >= 3
          /\ steps[n].node = "END"
          /\ RequestedNone(n - 1)
          /\ last = AIMessage(steps[n - 1].content, <<>>)
          /\ FinalReply(final) # ISSUE_APOLOGY
  /\ (run.pc = "returned" /\ run.op = "chat") =>
       run.ret.response # ISSUE_APOLOGY

\* a run went through TOOLS, whose messages are not assistant messages, and
\* ended on the answer of the DECIDE step that followed
C27_Witness ==
  /\ EndedNormally
  /\ StepsAt("tools") # {}
  /\ \E i \in DOMAIN checkpointer[run.thread_id] :
       checkpointer[run.thread_id][i].type = "tool"
  /\ checkpointer[run.thread_id][Len(checkpointer[run.thread_id])].type = "ai"

\* the step that takes a run out of the tools node along its edge: it is the
\* step ToolsNode makes, without what the handlers do to the tables
ToolsNodeReturns ==
  /\ run.pc = "tools"
  /\ run' = [run EXCEPT !.pc = Edge("tools"), !.rounds = @ + 1]

\* graph.invoke runs the nodes of a turn one after the other until END or an
\* exception: a node whose turn it is to run does run, and the model calls and
\* the handlers return.  The model's answers are not under the program's
\* control: here the model stops requesting tools after MaxRounds rounds at
\* the latest.
SpecReActFair ==
  /\ SpecReAct
  /\ WF_vars(ReasoningNode)
  /\ WF_vars(AgentNode)
  /\ WF_run(ToolsNodeReturns)

\* a staged turn is under way
InTurn == run.pc \in {"reasoning", "agent", "tools"}

Personalities == {"formal", "casual", "supportive"}

\* create_agent of vanilla_agent.py, called with no argument (line 18)
create_vanilla_agent(id) ==
  [raised |-> FALSE, obj |-> [kind |-> "vanilla", id |-> id]]

\* variant: create_agent of react_lg_agent.py accepts the personality
create_react_agentAccepting(personality, id) ==
  [raised |-> FALSE, obj |-> [kind |-> "react", id |-> id]]

\* create_react_agent(personality) (line 22): create_agent of
\* react_lg_agent.py (lines 231-233) takes no parameter, the call raises
\* TypeError before any agent is built
create_react_agent(personality, id) ==
  [raised |-> TRUE, obj |-> NoAgent]

\* initialize_agent(agent_type, personality) is called (line 13)
initialize_agent ==
  \E agent_type \in {"vanilla", "react"}, personality \in Personalities :
    /\ threads.init.pc = "idle"
    /\ threads.init.calls < MaxInits
    /\ threads' = [threads EXCEPT
                     !.init.pc = "current_agent",
                     !.init.agent_type = agent_type,
                     !.init.personality = personality,
                     !.init.calls = @ + 1,
                     !.init.raised = FALSE]
    /\ UNCHANGED <<current_agent, current_agent_type, current_personality,
                   dispatched>>
    /\ UNCHANGED <<storeVars, concVars, chatVars, reactVars>>

\* current_agent = create_vanilla_agent() (line 18) or
\* current_agent = create_react_agent(personality) (line 22): when the
\* creation raises, the exception leaves initialize_agent and no global is
\* assigned
AssignCurrentAgent ==
  /\ threads.init.pc = "current_agent"
  /\ \E r \in {IF threads.init.agent_type = "vanilla"
                THEN create_vanilla_agent(threads.init.created + 1)
                ELSE create_react_agent(threads.init.personality,
                                        threads.init.created + 1)} :
       IF r.raised
       THEN /\ threads' = [threads EXCEPT !.init.pc = "idle",
                                          !.init.raised = TRUE]
            /\ UNCHANGED current_agent
       ELSE /\ current_agent' = r.obj
            /\ threads' = [threads EXCEPT !.init.pc = "current_agent_type",
                                          !.init.created = @ + 1]
  /\ UNCHANGED <<current_agent_type, current_personality, dispatched>>
  /\ UNCHANGED <<storeVars, concVars, chatVars, reactVars>>

\* current_agent_type = "vanilla" (line 19) or "react" (line 23)
AssignCurrentAgentType ==
  /\ threads.init.pc = "current_agent_type"
  /\ current_agent_type' = threads.init.agent_type
  /\ threads' = [threads EXCEPT !.init.pc = "current_personality"]
  /\ UNCHANGED <<current_agent, current_personality, dispatched>>
  /\ UNCHANGED <<storeVars, concVars, chatVars, reactVars>>

\* current_personality = None (line 20) or personality (line 24), and the
\* return (line 28)
AssignCurrentPersonality ==
  /\ threads.init.pc = "current_personality"
  /\ current_personality' = IF threads.init.agent_type = "vanilla"
                            THEN "None" ELSE threads.init.personality
  /\ threads' = [threads EXCEPT !.init.pc = "idle"]
  /\ UNCHANGED <<current_agent, current_agent_type, dispatched>>
  /\ UNCHANGED <<storeVars, concVars, chatVars, reactVars>>

\* chat_interface(message, history) is called (line 30)
chat_interface ==
  /\ threads.chat.pc = "idle"
  /\ threads.chat.calls < MaxUiMessages
  /\ threads' = [threads EXCEPT !.chat.pc = "is_none",
                                !.chat.type = "None",
                                !.chat.calls = @ + 1]
  /\ UNCHANGED <<current_agent, current_agent_type, current_personality,
                 dispatched>>
  /\ UNCHANGED <<storeVars, concVars, chatVars, reactVars>>

\* if current_agent is None: the error reply and the return (lines 43-46)
CheckCurrentAgent ==
  /\ threads.chat.pc = "is_none"
  /\ threads' = IF current_agent = NoAgent
                THEN [threads EXCEPT
                        !.chat.pc = "idle",
                        !.chat.replies = Append(@, "No agent initialized.")]
                ELSE [threads EXCEPT !.chat.pc = "agent_type"]
  /\ UNCHANGED <<current_agent, current_agent_type, current_personality,
                 dispatched>>
  /\ UNCHANGED <<storeVars, concVars, chatVars, reactVars>>

\* if current_agent_type == "vanilla": ... elif current_agent_type ==
\* "react": ... else: raise ValueError (lines 58-72), caught by the except
\* branch (lines 79-82)
ReadCurrentAgentType ==
  /\ threads.chat.pc = "agent_type"
  /\ threads' = IF current_agent_type \in {"vanilla", "react"}
                THEN [threads EXCEPT !.chat.pc = "call",
                                     !.chat.type = current_agent_type]
                ELSE [threads EXCEPT
                        !.chat.pc = "idle",
                        !.chat.replies = Append(@, "Unknown agent type")]
  /\ UNCHANGED <<current_agent, current_agent_type, current_personality,
                 dispatched>>
  /\ UNCHANGED <<storeVars, concVars, chatVars, reactVars>>

\* what the call made in the branch of the kind read gives on an object of
\* kind: chat on the vanilla agent returns (response, history); the other
\* combinations end in the except branch of chat_interface (chat_with_history
\* returns a str where a pair is unpacked, lines 61 and 79-82)
Dispatch(type, kind) ==
  IF type = "vanilla" /\ kind = "vanilla" THEN "reply" ELSE "apology"

\* current_agent.chat(message, formatted_history) (line 59) or
\* current_agent.chat_with_history(message, formatted_history) (line 61):
\* the global is read again, the method is called on the object it holds
\* now, the reply is appended to the history and returned (lines 75-77)
CallCurrentAgent ==
  /\ threads.chat.pc = "call"
  /\ dispatched' = Append(dispatched,
       [type |-> threads.chat.type, kind |-> current_agent.kind,
        id |-> current_agent.id, initialising |-> threads.init.pc])
  /\ threads' = [threads EXCEPT
                   !.chat.pc = "idle",
                   !.chat.replies =
                     Append(@, Dispatch(threads.chat.type, current_agent.kind))]
  /\ UNCHANGED <<current_agent, current_agent_type, current_personality>>
  /\ UNCHANGED <<storeVars, concVars, chatVars, reactVars>>

NextInterface ==
  \/ initialize_agent
  \/ AssignCurrentAgent
  \/ AssignCurrentAgentType
  \/ AssignCurrentPersonality
  \/ chat_interface
  \/ CheckCurrentAgent
  \/ ReadCurrentAgentType
  \/ CallCurrentAgent

SpecInterface == Init /\ [][NextInterface]_vars

====
